---- MODULE Spec2Model ----
(***************************************************************************)
(* A model of jsoncons' streaming CBOR parser, basic_cbor_parser           *)
(* (include/jsoncons_ext/cbor/cbor_parser.hpp).                            *)
(*                                                                         *)
(* The parser is a record p whose fields are the members of the class      *)
(* (source_, more_, done_, state_stack_, ...), plus the error_code         *)
(* out-parameter `ec` and the log `out` of the visitor callbacks made so   *)
(* far.  Every member function is an operator from parser records to       *)
(* parser records; `reply` is what the visitor callback of the step        *)
(* returns.  The variables of the state machine are the fields of one      *)
(* parser driven by a caller through parse(), restart() and reset().       *)
(*                                                                         *)
(* Numbers: a uint64_t is four 16-bit limbs, most significant first, so    *)
(* that the full 64-bit range is kept; an int64_t is its two's complement  *)
(* bit pattern in the same form.  size_t is 64 bits wide.                  *)
(***************************************************************************)
EXTENDS Integers, Sequences, FiniteSets, TLC

(***************************************************************************)
(* Bounds of the model.                                                    *)
(***************************************************************************)
\* Inputs of every length up to MaxLen over Alphabet are explored.
MaxLen == 3
\* nesting_depth_ is an int that grows without limit when parse() is called
\* again and again after max_nesting_depth_exceeded; the loop of parse() is
\* not run once the counter has passed max_nesting_depth by more than DepthSlack.
DepthSlack == 2

Min(a, b) == IF a < b THEN a ELSE b

\* K of the value v: With(v, LAMBDA x : e) is e with x standing for v
With(v, K(_)) == K(v)

(***************************************************************************)
(* 64-bit values.                                                          *)
(***************************************************************************)
Limb == 256 * 256

Zero64 == <<0, 0, 0, 0>>

\* A natural below 2^31 as a uint64_t.
U64(n) == <<0, 0, n \div Limb, n % Limb>>

IsSmall(v) == v[1] = 0 /\ v[2] = 0 /\ v[3] < 32768

\* The value of a uint64_t below 2^31.
ToNat(v) == v[3] * Limb + v[4]

\* i < v, for a natural i below 2^31 and a uint64_t v
IndexBelow(i, v) == ~IsSmall(v) \/ i < ToNat(v)

\* v >= n, for a uint64_t v and a natural n below 2^31
AtLeast(v, n) == ~IsSmall(v) \/ ToNat(v) >= n

\* the int64_t -x in two's complement: the complement plus one
Negate64(v) ==
    LET c == [i \in 1..4 |-> (Limb - 1) - v[i]]
    IN  IF c[4] < Limb - 1 THEN [c EXCEPT ![4] = @ + 1]
        ELSE IF c[3] < Limb - 1 THEN [c EXCEPT ![4] = 0, ![3] = @ + 1]
        ELSE IF c[2] < Limb - 1 THEN [c EXCEPT ![4] = 0, ![3] = 0, ![2] = @ + 1]
        ELSE [c EXCEPT ![4] = 0, ![3] = 0, ![2] = 0, ![1] = (@ + 1) % Limb]

\* bitwise complement: the int64_t -1 - x in two's complement
Not64(v) == [i \in 1..4 |-> (Limb - 1) - v[i]]

PadLeft(bs, n) ==
    [i \in 1..n |-> IF i <= n - Len(bs) THEN 0 ELSE bs[i - (n - Len(bs))]]

\* jsoncons::detail::big_to_native<T>(buf, buf + sizeof(T)): the big-endian
\* value of the bytes of buf
big_to_native(buf) ==
    LET b == PadLeft(buf, 8)
    IN  [i \in 1..4 |-> b[2 * i - 1] * 256 + b[2 * i]]

\* A buffer uint8_t buf[n] after source_.read(buf, n) delivered `got`: the
\* bytes not written keep what the uninitialised array held.
Filled(got, n, uninit) ==
    [i \in 1..n |-> IF i <= Len(got) THEN got[i] ELSE uninit]

(***************************************************************************)
(* The byte source: [data, pos, eof], pos the number of bytes consumed.    *)
(***************************************************************************)
EOF == -1

src_peek(s) == IF s.pos < Len(s.data) THEN s.data[s.pos + 1] ELSE EOF

src_ignore(s, n) == [s EXCEPT !.pos = Min(s.pos + n, Len(s.data))]

src_get(s) ==
    IF s.pos < Len(s.data)
    THEN [ok |-> TRUE, c |-> s.data[s.pos + 1], s |-> [s EXCEPT !.pos = s.pos + 1]]
    ELSE [ok |-> FALSE, c |-> 0, s |-> [s EXCEPT !.eof = TRUE]]

\* read(buf, n): the bytes available, at most n; a short read sets eof
src_read(s, n) ==
    LET k == Min(n, Len(s.data) - s.pos)
    IN  [bytes |-> SubSeq(s.data, s.pos + 1, s.pos + k),
         s |-> [s EXCEPT !.pos = s.pos + k, !.eof = s.eof \/ k < n]]

\* read of a uint64_t count of bytes into a container
src_read_n(s, len) ==
    IF IsSmall(len)
    THEN With(src_read(s, ToNat(len)), LAMBDA r :
             [full |-> ToNat(len) <= Len(s.data) - s.pos, bytes |-> r.bytes, s |-> r.s])
    ELSE [full |-> FALSE,
          bytes |-> SubSeq(s.data, s.pos + 1, Len(s.data)),
          s |-> [s EXCEPT !.pos = Len(s.data), !.eof = TRUE]]

(***************************************************************************)
(* Head byte.                                                              *)
(***************************************************************************)
get_major_type(type) == type \div 32

get_additional_information_value(type) == type % 32

\* (uint8_t)c for the int c that peek() or get() returned
AsByte(c) == IF c = EOF THEN 255 ELSE c

unsigned_integer == 0
negative_integer == 1
byte_string == 2
text_string == 3
array == 4
map == 5
semantic_tag == 6
simple == 7

indefinite_length == 31

(***************************************************************************)
(* Error codes and visitor callbacks.                                      *)
(***************************************************************************)
NoError == "none"

\* ec = e; more_ = false; return
Fail(p, e) == [p EXCEPT !.ec = e, !.more_ = FALSE]

\* ec = e; return (more_ is left as it is)
FailOnly(p, e) == [p EXCEPT !.ec = e]

\* JSONCONS_ASSERT / JSONCONS_UNREACHABLE: an exception leaves parse()
Throw(p) == [p EXCEPT !.ec = "exception"]

Event(ev, arg, tag) == [ev |-> ev, arg |-> arg, tag |-> tag]

\* Visit with the callback's result dropped: visitor.<ev>(arg, tag, *this, ec)
VisitIgnoringReply(p, ev, arg, tag, reply) ==
    [p EXCEPT !.out = Append(@, Event(ev, arg, tag))]

\* more_ = visitor.<ev>(arg, tag, *this, ec)
Visit(p, ev, arg, tag, reply) ==
    [p EXCEPT !.out = Append(@, Event(ev, arg, tag)), !.more_ = reply]

(***************************************************************************)
(* Arguments of the head byte.  Each reader returns the parser after the   *)
(* read and the value read: [p, val].                                      *)
(***************************************************************************)
get_uint64_value(p) ==
    IF p.source_.eof
    THEN [p |-> Fail(p, "unexpected_eof"), val |-> Zero64]
    ELSE With(src_get(p.source_), LAMBDA g :
         With([p EXCEPT !.source_ = g.s], LAMBDA p1 :
         With(get_additional_information_value(g.c), LAMBDA info :
             IF ~g.ok
             THEN [p |-> Fail(p1, "unexpected_eof"), val |-> Zero64]
             ELSE CASE info <= 23 -> [p |-> p1, val |-> U64(info)]
                    [] info = 24 ->
                         With(src_get(g.s), LAMBDA h :
                         With([p EXCEPT !.source_ = h.s], LAMBDA p2 :
                             IF ~h.ok
                             THEN [p |-> Fail(p2, "unexpected_eof"), val |-> Zero64]
                             ELSE [p |-> p2, val |-> U64(h.c)]))
                    [] info \in {25, 26, 27} ->
                         \* source_.read(buf, sizeof(T)): the count is not tested
                         With(src_read(g.s, 2 ^ (info - 24)), LAMBDA r :
                             [p |-> [p EXCEPT !.source_ = r.s],
                              val |-> big_to_native(
                                          Filled(r.bytes, 2 ^ (info - 24), p.uninit))])
                    [] OTHER -> [p |-> p1, val |-> Zero64])))

\* x <= (std::numeric_limits<int64_t>::max)()
FitsInt64(x) == x[1] < 32768

get_int64_value(p) ==
    IF p.source_.eof
    THEN [p |-> Fail(p, "unexpected_eof"), val |-> Zero64]
    ELSE With(AsByte(src_peek(p.source_)), LAMBDA c :
         With(get_additional_information_value(c), LAMBDA info :
             CASE get_major_type(c) = negative_integer ->
                    With(src_ignore(p.source_, 1), LAMBDA s1 :
                    With([p EXCEPT !.source_ = s1], LAMBDA p1 :
                        CASE info <= 23 -> [p |-> p1, val |-> Not64(U64(info))]
                          [] info = 24 ->
                               With(src_get(s1), LAMBDA h :
                               With([p EXCEPT !.source_ = h.s], LAMBDA p2 :
                                   IF ~h.ok
                                   THEN [p |-> Fail(p2, "unexpected_eof"), val |-> Zero64]
                                   ELSE [p |-> p2, val |-> Not64(U64(h.c))]))
                          [] info \in {25, 26, 27} ->
                               With(src_read(s1, 2 ^ (info - 24)), LAMBDA r :
                               With([p EXCEPT !.source_ = r.s], LAMBDA p2 :
                                   IF Len(r.bytes) # 2 ^ (info - 24)
                                   THEN [p |-> p2, val |-> Zero64]  \* return val;
                                   ELSE [p |-> p2, val |-> Not64(big_to_native(r.bytes))]))
                          [] OTHER -> [p |-> p1, val |-> Zero64]))
                [] get_major_type(c) = unsigned_integer ->
                    With(get_uint64_value(p), LAMBDA r :
                        IF r.p.ec # NoError
                        THEN [p |-> r.p, val |-> Zero64]
                        ELSE [p |-> r.p, val |-> IF FitsInt64(r.val) THEN r.val ELSE Zero64])
                [] OTHER -> [p |-> p, val |-> Zero64]))

\* The value is the IEEE 754 bit pattern read, not the number it denotes.
get_double(p) ==
    IF p.source_.eof
    THEN [p |-> Fail(p, "unexpected_eof"), val |-> Zero64]
    ELSE With(src_get(p.source_), LAMBDA g :
         With([p EXCEPT !.source_ = g.s], LAMBDA p1 :
         With(get_additional_information_value(g.c), LAMBDA info :
             IF ~g.ok
             THEN [p |-> Fail(p1, "unexpected_eof"), val |-> Zero64]
             ELSE IF info \in {26, 27}
                  THEN With(src_read(g.s, 2 ^ (info - 24)), LAMBDA r :
                       With([p EXCEPT !.source_ = r.s], LAMBDA p2 :
                           IF r.s.eof
                           THEN [p |-> Fail(p2, "unexpected_eof"), val |-> Zero64]
                           ELSE [p |-> p2, val |-> big_to_native(r.bytes)]))
                  ELSE [p |-> p1, val |-> Zero64])))

\* std::size_t is as wide as uint64_t: len != u never holds
get_size(p) ==
    With(get_uint64_value(p), LAMBDA r :
        IF r.p.ec # NoError THEN [p |-> r.p, val |-> Zero64] ELSE r)

(***************************************************************************)
(* Tags.                                                                   *)
(***************************************************************************)
stringref_tag_number == 25
stringref_namespace_tag_number == 256

\* the tag numbers read_tags records as item_tag_
ItemTags ==
    {0, 1, 2, 3, 4, 5, 21, 22, 23, 32, 33, 34, 40, 1040}
        \cup {64, 68, 65, 69, 66, 70, 67, 71, 72, 73, 77, 74, 78, 75, 79,
              80, 84, 81, 85, 82, 86}

NoTags == [stringref_tag |-> FALSE, stringref_namespace_tag |-> FALSE, item_tag |-> FALSE]

\* the switch (val) of read_tags, with an item tag that is pending kept
record_tag_keeping_first(p, val) ==
    IF ~IsSmall(val) THEN p
    ELSE CASE ToNat(val) = stringref_tag_number ->
                [p EXCEPT !.other_tags_.stringref_tag = TRUE]
           [] ToNat(val) = stringref_namespace_tag_number ->
                [p EXCEPT !.other_tags_.stringref_namespace_tag = TRUE]
           [] ToNat(val) \in ItemTags /\ ~p.other_tags_.item_tag ->
                [p EXCEPT !.other_tags_.item_tag = TRUE, !.item_tag_ = ToNat(val)]
           [] OTHER -> p

\* the switch (val) of read_tags
record_tag(p, val) ==
    IF ~IsSmall(val) THEN p
    ELSE CASE ToNat(val) = stringref_tag_number ->
                [p EXCEPT !.other_tags_.stringref_tag = TRUE]
           [] ToNat(val) = stringref_namespace_tag_number ->
                [p EXCEPT !.other_tags_.stringref_namespace_tag = TRUE]
           [] ToNat(val) \in ItemTags ->
                [p EXCEPT !.other_tags_.item_tag = TRUE, !.item_tag_ = ToNat(val)]
           [] OTHER -> p

RECURSIVE read_tags_loop(_)
read_tags_loop(p) ==
    LET c == src_peek(p.source_)
    IN  IF c = EOF THEN Fail(p, "unexpected_eof")
        ELSE IF get_major_type(c) # semantic_tag THEN p
        ELSE With(get_uint64_value(p), LAMBDA r :
                 IF r.p.ec # NoError THEN r.p
                 ELSE read_tags_loop(record_tag(r.p, r.val)))

read_tags(p) == read_tags_loop(p)

(***************************************************************************)
(* Strings.                                                                *)
(***************************************************************************)
\* jsoncons::cbor::detail::min_length_for_stringref(index)
min_length_for_stringref(index) ==
    IF index <= 23 THEN 3
    ELSE IF index <= 255 THEN 4
    ELSE IF index <= 65535 THEN 5
    ELSE 7

mapped_string(type, s) == [type |-> type, s |-> s]

\* stringref_map_stack_.back().emplace_back(s), when the table takes s
stringref_push(p, type, s) ==
    With(Len(p.stringref_map_stack_), LAMBDA top :
        IF top > 0 /\ Len(s) >= min_length_for_stringref(Len(p.stringref_map_stack_[top]))
        THEN [p EXCEPT !.stringref_map_stack_[top] = Append(@, mapped_string(type, s))]
        ELSE p)

\* iterate_string_chunks with the lambda of read_text_string or
\* read_byte_string: [p, buf, short], buf the container the chunks are
\* appended to, short whether the lambda met a short read.
RECURSIVE iterate_string_chunks(_, _)
RECURSIVE chunks_loop(_, _)
chunks_loop(p, buf) ==
    LET test == src_peek(p.source_)
    IN  IF test = EOF
        THEN [p |-> Fail(p, "unexpected_eof"), buf |-> buf, short |-> FALSE]
        ELSE IF test = 255
        THEN [p |-> [p EXCEPT !.source_ = src_ignore(@, 1)], buf |-> buf, short |-> FALSE]
        ELSE With(iterate_string_chunks(p, buf), LAMBDA r :
                 IF r.p.ec # NoError THEN r ELSE chunks_loop(r.p, r.buf))

iterate_string_chunks(p, buf) ==
    LET c == src_peek(p.source_)
    IN  IF c = EOF
        THEN [p |-> Fail(p, "unexpected_eof"), buf |-> buf, short |-> FALSE]
        ELSE IF get_major_type(c) \notin {text_string, byte_string}
        THEN [p |-> Throw(p), buf |-> buf, short |-> FALSE]
        ELSE IF get_additional_information_value(c) = indefinite_length
        THEN chunks_loop([p EXCEPT !.source_ = src_ignore(@, 1)], buf)
        ELSE With(get_size(p), LAMBDA r :
             With(src_read_n(r.p.source_, r.val), LAMBDA rd :
             With([r.p EXCEPT !.source_ = rd.s], LAMBDA p2 :
                 IF r.p.ec # NoError
                 THEN [p |-> r.p, buf |-> buf, short |-> FALSE]
                 ELSE IF ~rd.full
                 THEN [p |-> Fail(p2, "unexpected_eof"), buf |-> buf \o rd.bytes,
                       short |-> TRUE]
                 ELSE [p |-> [p2 EXCEPT !.more_ = TRUE], buf |-> buf \o rd.bytes,
                       short |-> FALSE])))

\* [p, s]
read_text_string(p) ==
    LET c == src_peek(p.source_)
    IN  IF c = EOF THEN [p |-> Fail(p, "unexpected_eof"), s |-> <<>>]
        ELSE IF get_major_type(c) # text_string THEN [p |-> Throw(p), s |-> <<>>]
        ELSE With(iterate_string_chunks(p, <<>>), LAMBDA r :
                 [p |-> IF get_additional_information_value(c) # indefinite_length
                           /\ r.p.ec # "exception"
                        THEN stringref_push(r.p, text_string, r.buf)
                        ELSE r.p,
                  s |-> r.buf])

\* [p, v, more]: more is the bool that read_byte_string returns
read_byte_string(p) ==
    LET c == src_peek(p.source_)
    IN  IF c = EOF
        THEN [p |-> FailOnly(p, "unexpected_eof"), v |-> <<>>, more |-> FALSE]
        ELSE IF get_major_type(c) # byte_string
        THEN [p |-> Throw(p), v |-> <<>>, more |-> FALSE]
        ELSE IF get_additional_information_value(c) = indefinite_length
        THEN With(iterate_string_chunks(p, <<>>), LAMBDA r :
                 [p |-> r.p, v |-> r.buf, more |-> ~r.short])
        ELSE With(get_size(p), LAMBDA r :
             With(src_read_n(r.p.source_, r.val), LAMBDA rd :
             With([r.p EXCEPT !.source_ = rd.s], LAMBDA p2 :
                 IF r.p.ec # NoError
                 THEN [p |-> r.p, v |-> <<>>, more |-> FALSE]
                 ELSE IF ~rd.full
                 THEN [p |-> FailOnly(p2, "unexpected_eof"), v |-> rd.bytes,
                       more |-> FALSE]
                 ELSE [p |-> stringref_push(p2, byte_string, rd.bytes),
                       v |-> rd.bytes, more |-> TRUE])))

\* unicons::validate: is the byte sequence well-formed UTF-8
RECURSIVE is_valid_utf8(_)
is_valid_utf8(s) ==
    LET cont(i) == i <= Len(s) /\ s[i] >= 128 /\ s[i] <= 191
    IN  IF s = <<>> THEN TRUE
        ELSE CASE s[1] <= 127 -> is_valid_utf8(Tail(s))
               [] s[1] >= 194 /\ s[1] <= 223 ->
                    cont(2) /\ is_valid_utf8(SubSeq(s, 3, Len(s)))
               [] s[1] >= 224 /\ s[1] <= 239 ->
                    /\ cont(2) /\ cont(3)
                    /\ (s[1] = 224 => s[2] >= 160)
                    /\ (s[1] = 237 => s[2] <= 159)
                    /\ is_valid_utf8(SubSeq(s, 4, Len(s)))
               [] s[1] >= 240 /\ s[1] <= 244 ->
                    /\ cont(2) /\ cont(3) /\ cont(4)
                    /\ (s[1] = 240 => s[2] >= 144)
                    /\ (s[1] = 244 => s[2] <= 143)
                    /\ is_valid_utf8(SubSeq(s, 5, Len(s)))
               [] OTHER -> FALSE

\* the result of unicons::validate taken for no error
validate_passes_all(s) == FALSE

\* result.ec != unicons::conv_errc(), for result = unicons::validate(s)
validate_fails(s) == ~is_valid_utf8(s)

\* the semantic tag handle_string gives a text string
string_tag(p) ==
    IF ~p.other_tags_.item_tag THEN "none"
    ELSE CASE p.item_tag_ = 0 -> "datetime"
           [] p.item_tag_ = 32 -> "uri"
           [] p.item_tag_ = 33 -> "base64url"
           [] p.item_tag_ = 34 -> "base64"
           [] OTHER -> "none"

handle_string(p, v, reply) ==
    Visit([p EXCEPT !.other_tags_.item_tag = FALSE], "string", v, string_tag(p), reply)

(***************************************************************************)
(* Text renderings: strings are sequences of character codes.              *)
(***************************************************************************)
RECURSIVE strip_zeros(_)
strip_zeros(bs) == IF bs # <<>> /\ bs[1] = 0 THEN strip_zeros(Tail(bs)) ELSE bs

\* long division by 10 of the base-256 number `carry bs`
RECURSIVE div10(_, _)
div10(bs, carry) ==
    IF bs = <<>> THEN [q |-> <<>>, r |-> carry]
    ELSE LET cur == carry * 256 + bs[1]
             rest == div10(Tail(bs), cur % 10)
         IN  [q |-> <<cur \div 10>> \o rest.q, r |-> rest.r]

RECURSIVE decimal_digits(_)
decimal_digits(bs) ==
    With(strip_zeros(bs), LAMBDA m :
        IF m = <<>> THEN <<>>
        ELSE With(div10(m, 0), LAMBDA d : decimal_digits(d.q) \o <<48 + d.r>>))

\* bignum n(signum, data, size); n.dump(s): decimal digits, '-' first when
\* signum is negative
bignum_dump(signum, bs) ==
    With(decimal_digits(bs), LAMBDA d :
        IF d = <<>> THEN <<48>> ELSE IF signum < 0 THEN <<45>> \o d ELSE d)

hex_char(d) == IF d < 10 THEN 48 + d ELSE 55 + d

RECURSIVE hex_digits(_)
hex_digits(bs) ==
    IF bs = <<>> THEN <<>>
    ELSE <<hex_char(bs[1] \div 16), hex_char(bs[1] % 16)>> \o hex_digits(Tail(bs))

RECURSIVE strip_char(_, _)
strip_char(s, ch) == IF Len(s) > 1 /\ s[1] = ch THEN strip_char(Tail(s), ch) ELSE s

\* the bytes of a uint64_t, big-endian
bytes_of(v) == [i \in 1..8 |-> IF i % 2 = 1 THEN v[(i + 1) \div 2] \div 256
                                           ELSE v[i \div 2] % 256]

\* jsoncons::detail::write_integer for a uint64_t
write_uinteger(v) == bignum_dump(1, bytes_of(v))

\* jsoncons::detail::uinteger_to_hex_string
uinteger_to_hex_string(v) == strip_char(hex_digits(bytes_of(v)), 48)

\* bignum::dump_hex_string of the magnitude
dump_hex_string(bs) ==
    IF bs = <<>> THEN <<48>> ELSE strip_char(hex_digits(bs), 48)

\* v + 1 modulo 2^64
Inc64(v) ==
    LET c4 == IF v[4] = Limb - 1 THEN 1 ELSE 0
        c3 == IF c4 = 1 /\ v[3] = Limb - 1 THEN 1 ELSE 0
        c2 == IF c3 = 1 /\ v[2] = Limb - 1 THEN 1 ELSE 0
    IN  <<(v[1] + c2) % Limb, (v[2] + c3) % Limb, (v[3] + c4) % Limb, (v[4] + 1) % Limb>>

\* is the int64_t negative
IsNegative64(v) == v[1] >= 32768

\* the magnitude of an int64_t, as a uint64_t: static_cast<uint64_t>(-val)
Magnitude64(v) == IF IsNegative64(v) THEN Inc64(Not64(v)) ELSE v

\* jsoncons::detail::write_integer for an int64_t
write_integer(v) ==
    (IF IsNegative64(v) THEN <<45>> ELSE <<>>) \o write_uinteger(Magnitude64(v))

\* (int)exponent: the low 32 bits, as a signed number
int_of(v) == IF v[3] >= 32768 THEN (v[3] - Limb) * Limb + v[4] ELSE v[3] * Limb + v[4]

Zeros(n) == [i \in 1..n |-> 48]

\* jsoncons::detail::prettify_string(digits, length, k, min_exp, max_exp, result)
prettify_string(digits, k, min_exp, max_exp) ==
    LET nb == Len(digits)
        kk == nb + k
        \* 'e', the sign and the digits of the exponent
        expo(e) == <<101, IF e < 0 THEN 45 ELSE 43>>
                       \o With(IF e < 0 THEN 0 - e ELSE e,
                               LAMBDA a : bignum_dump(1, <<a \div 256, a % 256>>))
    IN  CASE nb <= kk /\ kk <= max_exp -> digits \o Zeros(kk - nb) \o <<46, 48>>
          [] 0 < kk /\ kk <= max_exp /\ kk < nb ->
               SubSeq(digits, 1, kk) \o <<46>> \o SubSeq(digits, kk + 1, nb)
          [] min_exp < kk /\ kk <= 0 -> <<48, 46>> \o Zeros(0 - kk) \o digits
          [] OTHER -> (IF nb = 1 THEN digits ELSE <<digits[1], 46>> \o Tail(digits))
                          \o expo(kk - 1)

\* jsoncons::encode_base64url: no padding
base64url_char(i) ==
    IF i < 26 THEN 65 + i
    ELSE IF i < 52 THEN 97 + (i - 26)
    ELSE IF i < 62 THEN 48 + (i - 52)
    ELSE IF i = 62 THEN 45 ELSE 95

RECURSIVE encode_base64url(_)
encode_base64url(bs) ==
    CASE Len(bs) = 0 -> <<>>
      [] Len(bs) = 1 -> <<base64url_char(bs[1] \div 4), base64url_char((bs[1] % 4) * 16)>>
      [] Len(bs) = 2 -> <<base64url_char(bs[1] \div 4),
                          base64url_char((bs[1] % 4) * 16 + bs[2] \div 16),
                          base64url_char((bs[2] % 16) * 4)>>
      [] OTHER -> <<base64url_char(bs[1] \div 4),
                    base64url_char((bs[1] % 4) * 16 + bs[2] \div 16),
                    base64url_char((bs[2] % 16) * 4 + bs[3] \div 64),
                    base64url_char(bs[3] % 64)>> \o encode_base64url(SubSeq(bs, 4, Len(bs)))

(***************************************************************************)
(* Byte strings and typed arrays.                                          *)
(***************************************************************************)
TypedArrayTags == ItemTags \cap 64..86

\* 1 << (f + ll)
get_typed_array_bytes_per_element(tag) == 2 ^ (((tag \div 16) % 2) + (tag % 4))

\* the e bit: 0 is big endian, 1 is little endian
get_typed_array_endianness(tag) == IF (tag \div 4) % 2 = 0 THEN "big" ELSE "little"

\* jsoncons::detail::endian::native of the build
native_endian == "little"

typed_array_event(tag) ==
    CASE tag \in {64, 68} -> "typed_array<uint8_t>"
      [] tag \in {65, 69} -> "typed_array<uint16_t>"
      [] tag \in {66, 70} -> "typed_array<uint32_t>"
      [] tag \in {67, 71} -> "typed_array<uint64_t>"
      [] tag = 72 -> "typed_array<int8_t>"
      [] tag \in {73, 77} -> "typed_array<int16_t>"
      [] tag \in {74, 78} -> "typed_array<int32_t>"
      [] tag \in {75, 79} -> "typed_array<int64_t>"
      [] tag \in {80, 84} -> "typed_array<half>"
      [] tag \in {81, 85} -> "typed_array<float>"
      [] OTHER -> "typed_array<double>"

Reverse(s) == [i \in 1..Len(s) |-> s[Len(s) + 1 - i]]

\* the bytes of the span handed to the visitor: size = bytes / bytes_per_elem
\* elements, each byte-swapped when the tag's endianness is not the host's.
typed_array_span(bs, tag) ==
    LET bpe == get_typed_array_bytes_per_element(tag)
        size == Len(bs) \div bpe
        elem(i) == SubSeq(bs, (i - 1) * bpe + 1, i * bpe)
        \* data[i] after the byte_swap loop, as it lies in memory
        mem(i) == IF bpe > 1 /\ get_typed_array_endianness(tag) # native_endian
                  THEN Reverse(elem(i)) ELSE elem(i)
        \* the value the host reads there, most significant byte first
        value(i) == IF native_endian = "little" THEN Reverse(mem(i)) ELSE mem(i)
    IN  [k \in 1..(size * bpe) |-> value((k - 1) \div bpe + 1)[((k - 1) % bpe) + 1]]

\* rd is what read(v, ec) left: [p, v]
write_byte_string(rd, reply) ==
    LET p == rd.p
        t == p.item_tag_
        q == [p EXCEPT !.other_tags_.item_tag = FALSE]
    IN  IF p.other_tags_.item_tag
        THEN IF p.ec = "exception" THEN p
             ELSE IF p.ec # NoError THEN [p EXCEPT !.more_ = FALSE]
             ELSE CASE t = 2 -> Visit(q, "string", bignum_dump(1, rd.v), "bigint", reply)
                    [] t = 3 -> Visit(q, "string", bignum_dump(-1, rd.v), "bigint", reply)
                    [] t = 21 -> Visit(q, "byte_string", rd.v, "base64url", reply)
                    [] t = 22 -> Visit(q, "byte_string", rd.v, "base64", reply)
                    [] t = 23 -> Visit(q, "byte_string", rd.v, "base16", reply)
                    [] t \in TypedArrayTags ->
                         Visit(q, typed_array_event(t), typed_array_span(rd.v, t),
                               IF t = 68 THEN "clamped" ELSE "none", reply)
                    [] OTHER -> Visit(q, "byte_string", rd.v, "none", reply)
        ELSE IF p.ec # NoError THEN p
             ELSE Visit(p, "byte_string", rd.v, "none", reply)

\* read_byte_string_from_source: the bool read_byte_string returns is dropped
read_byte_string_from_source(p) ==
    With(read_byte_string(p), LAMBDA r : [p |-> r.p, v |-> r.v])

read_byte_string_from_buffer(p, bytes) == [p |-> p, v |-> bytes]

(***************************************************************************)
(* Decimal fractions and bigfloats: [p, s].                                *)
(***************************************************************************)
\* the exponent of read_array_as_decimal_string / _hexfloat_string
read_exponent(p, err) ==
    LET c == src_peek(p.source_)
    IN  IF c = EOF THEN [p |-> Fail(p, "unexpected_eof"), val |-> Zero64]
        ELSE CASE get_major_type(c) = unsigned_integer -> get_uint64_value(p)
               [] get_major_type(c) = negative_integer -> get_int64_value(p)
               [] OTHER -> [p |-> Fail(p, err), val |-> Zero64]

\* the head of the array: source_.get() and the two assertions
read_pair_head(p) ==
    With(src_get(p.source_), LAMBDA g :
    With([p EXCEPT !.source_ = g.s], LAMBDA p1 :
        IF ~g.ok THEN Fail(p1, "unexpected_eof")
        ELSE IF get_major_type(g.c) # array \/ get_additional_information_value(g.c) # 2
        THEN Throw(p1)
        ELSE p1))

\* the tagged mantissa: [p, tag, v, bytes], bytes whether a byte string followed
read_tagged_mantissa(p) ==
    With(src_get(p.source_), LAMBDA g :
    With([p EXCEPT !.source_ = g.s], LAMBDA p1 :
    With(src_peek(g.s), LAMBDA c :
    With([p |-> p1, tag |-> 0, v |-> <<>>, bytes |-> FALSE], LAMBDA none :
        IF ~g.ok THEN [none EXCEPT !.p = Fail(p1, "unexpected_eof")]
        ELSE IF c = EOF THEN [none EXCEPT !.p = Fail(p1, "unexpected_eof")]
        ELSE IF get_major_type(c) # byte_string THEN none
        ELSE With(read_byte_string(p1), LAMBDA r :
                 [p |-> r.p, tag |-> get_additional_information_value(g.c), v |-> r.v,
                  bytes |-> TRUE, more |-> r.more])))))

decimal_of(s, exponent) ==
    IF s = <<>> THEN <<>>
    ELSE (IF s[1] = 45 THEN <<45>> ELSE <<>>)
             \o prettify_string(IF s[1] = 45 THEN Tail(s) ELSE s, int_of(exponent), -4, 17)

read_array_as_decimal_string(p) ==
    With(read_pair_head(p), LAMBDA h :
    With(read_exponent(h, "invalid_bigdec"), LAMBDA e :
    With(get_major_type(AsByte(src_peek(e.p.source_))), LAMBDA mt :
        IF h.ec # NoError THEN [p |-> h, s |-> <<>>]
        ELSE IF e.p.ec # NoError THEN [p |-> e.p, s |-> <<>>]
        ELSE CASE mt = unsigned_integer ->
                    With(get_uint64_value(e.p), LAMBDA u :
                        [p |-> u.p, s |-> decimal_of(write_uinteger(u.val), e.val)])
               [] mt = negative_integer ->
                    With(get_int64_value(e.p), LAMBDA i :
                        [p |-> i.p, s |-> decimal_of(write_integer(i.val), e.val)])
               [] mt = semantic_tag ->
                    With(read_tagged_mantissa(e.p), LAMBDA m :
                        IF m.p.ec # NoError
                        THEN [p |-> [m.p EXCEPT !.more_ = FALSE], s |-> <<>>]
                        ELSE [p |-> m.p,
                              s |-> IF m.bytes /\ m.tag \in {2, 3}
                                    THEN decimal_of(
                                             bignum_dump(IF m.tag = 2 THEN 1 ELSE -1, m.v),
                                             e.val)
                                    ELSE <<>>])
               [] OTHER -> [p |-> Fail(e.p, "invalid_bigdec"), s |-> <<>>])))

\* 'p' and the exponent, in hexadecimal
hex_exponent(v) ==
    (IF IsNegative64(v) THEN <<112, 45>> ELSE <<112>>)
        \o uinteger_to_hex_string(Magnitude64(v))

read_array_as_hexfloat_string(p) ==
    With(read_pair_head(p), LAMBDA h :
    With(read_exponent(h, "invalid_bigfloat"), LAMBDA e :
    With(get_major_type(AsByte(src_peek(e.p.source_))), LAMBDA mt :
        IF h.ec # NoError THEN [p |-> h, s |-> <<>>]
        ELSE IF e.p.ec # NoError THEN [p |-> e.p, s |-> <<>>]
        ELSE CASE mt = unsigned_integer ->
                    With(get_uint64_value(e.p), LAMBDA u :
                        [p |-> u.p,
                         s |-> IF u.p.ec # NoError THEN <<>>
                               ELSE <<48, 120>> \o uinteger_to_hex_string(u.val)
                                        \o hex_exponent(e.val)])
               [] mt = negative_integer ->
                    With(get_int64_value(e.p), LAMBDA i :
                        [p |-> i.p,
                         s |-> IF i.p.ec # NoError THEN <<>>
                               ELSE <<45, 48, 120>>
                                        \o uinteger_to_hex_string(Magnitude64(i.val))
                                        \o hex_exponent(e.val)])
               [] mt = semantic_tag ->
                    With(read_tagged_mantissa(e.p), LAMBDA m :
                        IF m.p.ec # NoError
                        THEN [p |-> IF m.bytes THEN [m.p EXCEPT !.more_ = m.more] ELSE m.p,
                              s |-> <<>>]
                        ELSE [p |-> m.p,
                              \* '-' is pushed for tag 2 as it is for tag 3
                              s |-> (IF m.bytes /\ m.tag \in {2, 3}
                                     THEN <<45, 48, 120>> \o dump_hex_string(m.v)
                                     ELSE <<>>) \o hex_exponent(e.val)])
               [] OTHER -> [p |-> Fail(e.p, "invalid_bigfloat"), s |-> <<>>])))

(***************************************************************************)
(* Containers.                                                             *)
(***************************************************************************)
\* parse_state(mode, length, pop_stringref_map_stack)
parse_state(mode, length, pop) ==
    [mode |-> mode, length |-> length, index |-> 0, pop_stringref_map_stack |-> pop]

Back(p) == p.state_stack_[Len(p.state_stack_)]

Pop(stack) == SubSeq(stack, 1, Len(stack) - 1)

\* the stringref_namespace_tag test of begin_array and begin_object
open_namespace(p) ==
    IF p.other_tags_.stringref_namespace_tag
    THEN [p EXCEPT !.stringref_map_stack_ = Append(@, <<>>),
                   !.other_tags_.stringref_namespace_tag = FALSE]
    ELSE p

\* begin_array and begin_object differ in the modes pushed and in the event
begin_container(p, info, indefinite_mode, definite_mode, ev, reply) ==
    With([p EXCEPT !.nesting_depth_ = @ + 1], LAMBDA p1 :
    With(p.other_tags_.stringref_namespace_tag, LAMBDA pop :
    With(open_namespace(p1), LAMBDA p2 :
        IF p1.nesting_depth_ > p.max_nesting_depth
        THEN FailOnly(p1, "max_nesting_depth_exceeded")
        ELSE IF info = indefinite_length
        THEN With(Visit([p2 EXCEPT !.state_stack_ =
                             Append(@, parse_state(indefinite_mode, Zero64, pop))],
                        ev, <<>>, "none", reply),
                  LAMBDA p3 : [p3 EXCEPT !.source_ = src_ignore(@, 1)])
        ELSE With(get_size(p2), LAMBDA r :
                 IF r.p.ec # NoError THEN r.p
                 ELSE Visit([r.p EXCEPT !.state_stack_ =
                                 Append(@, parse_state(definite_mode, r.val, pop))],
                            ev, r.val, "none", reply)))))

begin_array(p, info, reply) ==
    begin_container(p, info, "indefinite_array", "array", "begin_array", reply)

begin_object(p, info, reply) ==
    begin_container(p, info, "indefinite_map_key", "map_key", "begin_object", reply)

end_container(p, ev, reply) ==
    LET p1 == Visit([p EXCEPT !.nesting_depth_ = @ - 1], ev, <<>>, "none", reply)
    IN  [p1 EXCEPT !.stringref_map_stack_ =
                       IF Back(p).pop_stringref_map_stack THEN Pop(@) ELSE @,
                   !.state_stack_ = Pop(@)]

\* end_array calling the visitor's end_object
end_array_as_object(p, reply) == end_container(p, "end_object", reply)

end_array(p, reply) == end_container(p, "end_array", reply)

end_object(p, reply) == end_container(p, "end_object", reply)

(***************************************************************************)
(* Multi-dimensional arrays.                                               *)
(***************************************************************************)
\* the while (true) loop of read_shape: `break` leaves the switch only
RECURSIVE read_shape_indefinite(_, _)
read_shape_indefinite(p, shape) ==
    LET c == src_peek(p.source_)
    IN  IF c = EOF THEN [p |-> Fail(p, "unexpected_eof"), shape |-> shape]
        ELSE IF c = 255
        THEN read_shape_indefinite([p EXCEPT !.source_ = src_ignore(@, 1)], shape)
        ELSE With(get_size(p), LAMBDA r :
                 IF r.p.ec # NoError THEN [p |-> r.p, shape |-> shape]
                 ELSE read_shape_indefinite(r.p, shape \o r.val))

\* for (i = 0; more_ && i < size; ++i)
RECURSIVE read_shape_definite(_, _, _, _)
read_shape_definite(p, shape, i, size) ==
    IF ~(p.more_ /\ IndexBelow(i, size)) THEN [p |-> p, shape |-> shape]
    ELSE With(get_size(p), LAMBDA r :
             IF r.p.ec # NoError THEN [p |-> r.p, shape |-> shape]
             ELSE read_shape_definite(r.p, shape \o r.val, i + 1, size))

\* [p, shape]: the dimensions, four limbs each
read_shape(p, info) ==
    IF info = indefinite_length THEN read_shape_indefinite(p, <<>>)
    ELSE With(get_size(p), LAMBDA r :
             IF r.p.ec # NoError THEN [p |-> r.p, shape |-> <<>>]
             ELSE read_shape_definite(r.p, <<>>, 0, r.val))

produce_begin_multi_dim(p, tag, reply) ==
    With(src_get(p.source_), LAMBDA g :
    With([p EXCEPT !.source_ = g.s], LAMBDA p1 :
        IF ~g.ok THEN Fail(p1, "unexpected_eof")
        ELSE With(read_shape(p1, get_additional_information_value(g.c)), LAMBDA r :
                 IF r.p.ec # NoError THEN r.p
                 ELSE Visit([r.p EXCEPT !.state_stack_ =
                                 Append(@, parse_state("multi_dim", Zero64, FALSE))],
                            "begin_multi_dim", r.shape, tag, reply))))

\* the multi_dim frame left on the stack
produce_end_multi_dim_keeping_frame(p, reply) ==
    Visit(p, "end_multi_dim", <<>>, "none", reply)

produce_end_multi_dim(p, reply) ==
    [Visit(p, "end_multi_dim", <<>>, "none", reply) EXCEPT !.state_stack_ = Pop(@)]

(***************************************************************************)
(* Items.                                                                  *)
(***************************************************************************)
\* the semantic tag of a number: timestamp under item tag 1
number_tag(p) ==
    IF p.other_tags_.item_tag /\ p.item_tag_ = 1 THEN "timestamp" ELSE "none"

\* the reference looked up in the outermost table: front() for back()
resolve_stringref_front(p, val, reply) ==
    LET table == p.stringref_map_stack_[1]
        str == table[ToNat(val) + 1]
    IN  IF AtLeast(val, Len(table)) THEN Fail(p, "stringref_too_large")
        ELSE IF str.type = text_string THEN handle_string(p, str.s, reply)
        ELSE write_byte_string(read_byte_string_from_buffer(p, str.s), reply)

\* the resolved string appended to the innermost table once more
resolve_stringref_appending(p, val, reply) ==
    LET table == p.stringref_map_stack_[Len(p.stringref_map_stack_)]
        str == table[ToNat(val) + 1]
        q == [p EXCEPT !.stringref_map_stack_[Len(p.stringref_map_stack_)] =
                           Append(@, str)]
    IN  IF AtLeast(val, Len(table)) THEN Fail(p, "stringref_too_large")
        ELSE IF str.type = text_string THEN handle_string(q, str.s, reply)
        ELSE write_byte_string(read_byte_string_from_buffer(q, str.s), reply)

\* the stringref branch of read_item, after other_tags_[stringref_tag] = false
resolve_stringref(p, val, reply) ==
    LET table == p.stringref_map_stack_[Len(p.stringref_map_stack_)]
        str == table[ToNat(val) + 1]
    IN  IF AtLeast(val, Len(table)) THEN Fail(p, "stringref_too_large")
        ELSE IF str.type = text_string THEN handle_string(p, str.s, reply)
        ELSE write_byte_string(read_byte_string_from_buffer(p, str.s), reply)

\* read_item, case simple, with a default case that skips the byte
read_simple_skipping_unknown(p, info, reply) ==
    LET after(q) == [q EXCEPT !.source_ = src_ignore(@, 1)]
    IN  CASE info = 20 -> after(Visit(p, "bool", <<0>>, "none", reply))
          [] info = 21 -> after(Visit(p, "bool", <<1>>, "none", reply))
          [] info = 22 -> after(Visit(p, "null", <<>>, "none", reply))
          [] info = 23 -> after(Visit(p, "null", <<>>, "undefined", reply))
          [] info = 25 ->
               With(get_uint64_value(p), LAMBDA u :
                   IF u.p.ec # NoError THEN u.p
                   ELSE Visit(u.p, "half", <<0, 0, 0, u.val[4]>>, "none", reply))
          [] info \in {26, 27} ->
               With(get_double(p), LAMBDA d :
                   IF d.p.ec # NoError THEN d.p
                   ELSE Visit([d.p EXCEPT !.other_tags_.item_tag = FALSE],
                              "double", d.val, number_tag(p), reply))
          [] OTHER -> after(p)

read_simple(p, info, reply) ==
    LET after(q) == [q EXCEPT !.source_ = src_ignore(@, 1)]
    IN  CASE info = 20 -> after(Visit(p, "bool", <<0>>, "none", reply))
          [] info = 21 -> after(Visit(p, "bool", <<1>>, "none", reply))
          [] info = 22 -> after(Visit(p, "null", <<>>, "none", reply))
          [] info = 23 -> after(Visit(p, "null", <<>>, "undefined", reply))
          [] info = 25 ->
               With(get_uint64_value(p), LAMBDA u :
                   IF u.p.ec # NoError THEN u.p
                   ELSE Visit(u.p, "half", <<0, 0, 0, u.val[4]>>, "none", reply))
          [] info \in {26, 27} ->
               With(get_double(p), LAMBDA d :
                   IF d.p.ec # NoError THEN d.p
                   ELSE Visit([d.p EXCEPT !.other_tags_.item_tag = FALSE],
                              "double", d.val, number_tag(p), reply))
          [] OTHER -> Fail(p, "unknown_type")

read_tagged_array(p, info, reply) ==
    CASE p.item_tag_ = 4 ->
           With(read_array_as_decimal_string(p), LAMBDA dec :
               IF dec.p.ec # NoError THEN dec.p
               ELSE Visit(dec.p, "string", dec.s, "bigdec", reply))
      [] p.item_tag_ = 5 ->
           With(read_array_as_hexfloat_string(p), LAMBDA hex :
               IF hex.p.ec # NoError THEN hex.p
               ELSE Visit(hex.p, "string", hex.s, "bigfloat", reply))
      [] p.item_tag_ \in {40, 1040} ->
           produce_begin_multi_dim(p, IF p.item_tag_ = 40 THEN "multi_dim_row_major"
                                      ELSE "multi_dim_column_major", reply)
      [] OTHER -> begin_array(p, info, reply)

\* Whether the path taken through read_item ends in a `return`, which skips
\* the closing other_tags_[item_tag] = false.
returns_early(p0, q, major_type) ==
    /\ q.ec # NoError
    /\ major_type # map
    /\ major_type = array =>
           \/ q.ec = "exception"
           \/ p0.other_tags_.item_tag /\ p0.item_tag_ \in {4, 5}

read_item(p, reply) ==
    With(read_tags(p), LAMBDA t :
    With(src_peek(t.source_), LAMBDA c :
    With(get_major_type(c), LAMBDA major_type :
    With(get_additional_information_value(c), LAMBDA info :
        IF t.ec # NoError THEN t
        ELSE IF c = EOF THEN Fail(t, "unexpected_eof")
        ELSE With(CASE major_type = unsigned_integer ->
                         With(get_uint64_value(t), LAMBDA u :
                             IF u.p.ec # NoError THEN u.p
                             ELSE IF Len(t.stringref_map_stack_) > 0
                                     /\ t.other_tags_.stringref_tag
                             THEN resolve_stringref(
                                      [u.p EXCEPT !.other_tags_.stringref_tag = FALSE],
                                      u.val, reply)
                             ELSE Visit([u.p EXCEPT !.other_tags_.item_tag = FALSE],
                                        "uint64", u.val, number_tag(t), reply))
                    [] major_type = negative_integer ->
                         With(get_int64_value(t), LAMBDA i :
                             IF i.p.ec # NoError THEN i.p
                             ELSE Visit([i.p EXCEPT !.other_tags_.item_tag = FALSE],
                                        "int64", i.val, number_tag(t), reply))
                    [] major_type = byte_string ->
                         write_byte_string(read_byte_string_from_source(t), reply)
                    [] major_type = text_string ->
                         With(read_text_string(t), LAMBDA s :
                             IF s.p.ec # NoError THEN s.p
                             ELSE IF validate_fails(s.s)
                             THEN Fail(s.p, "invalid_utf8_text_string")
                             ELSE handle_string(s.p, s.s, reply))
                    [] major_type = simple -> read_simple(t, info, reply)
                    [] major_type = array ->
                         IF t.other_tags_.item_tag
                         THEN read_tagged_array(t, info, reply)
                         ELSE begin_array(t, info, reply)
                    [] major_type = map -> begin_object(t, info, reply)
                    [] OTHER -> Throw(t),
                  LAMBDA q :
                      IF returns_early(t, q, major_type) THEN q
                      ELSE [q EXCEPT !.other_tags_.item_tag = FALSE])))))

\* The text json_string_encoder produced for a key that is neither a string
\* nor a resolved stringref: one code per event the nested parser delivered,
\* each followed by the length of its argument and the argument.
event_code(ev) ==
    CASE ev = "uint64" -> 1 [] ev = "int64" -> 2 [] ev = "half" -> 3
      [] ev = "double" -> 4 [] ev = "bool" -> 5 [] ev = "null" -> 6
      [] ev = "string" -> 7 [] ev = "byte_string" -> 8 [] ev = "key" -> 9
      [] ev = "begin_array" -> 10 [] ev = "end_array" -> 11
      [] ev = "begin_object" -> 12 [] ev = "end_object" -> 13
      [] ev = "begin_multi_dim" -> 14 [] ev = "end_multi_dim" -> 15
      [] ev = "flush" -> 16 [] OTHER -> 17

RECURSIVE json_text(_)
json_text(out) ==
    IF out = <<>> THEN <<>>
    ELSE <<event_code(out[1].ev), Len(out[1].arg)>> \o out[1].arg \o json_text(Tail(out))

\* basic_cbor_parser(source, options): the state after construction
basic_cbor_parser(source, max_nesting_depth, uninit) ==
    [source_ |-> source,
     max_nesting_depth |-> max_nesting_depth,
     more_ |-> TRUE,
     done_ |-> FALSE,
     item_tag_ |-> 0,
     other_tags_ |-> NoTags,
     state_stack_ |-> <<parse_state("root", Zero64, FALSE)>>,
     stringref_map_stack_ |-> <<>>,
     nesting_depth_ |-> 0,
     uninit |-> uninit,
     ec |-> NoError,
     out |-> <<>>]

\* cbor_decode_options(): the default max_nesting_depth
default_max_nesting_depth == 1024

RECURSIVE parse(_)

\* the default branch of read_name: a nested parser reads the key
read_name_nested(p, reply) ==
    With(parse(basic_cbor_parser(p.source_, default_max_nesting_depth, p.uninit)),
         LAMBDA reader :
             IF reader.ec = "exception" THEN Throw(p)
             ELSE IF reader.ec # NoError THEN Fail(p, reader.ec)
             ELSE Visit([p EXCEPT !.source_ = reader.source_],
                        "key", json_text(reader.out), "none", reply))

read_name(p, reply) ==
    With(read_tags(p), LAMBDA t :
    With(src_peek(t.source_), LAMBDA c :
    With(get_major_type(c), LAMBDA major_type :
        IF t.ec # NoError THEN t
        ELSE IF c = EOF THEN Fail(t, "unexpected_eof")
        ELSE CASE major_type = text_string ->
                    With(read_text_string(t), LAMBDA s :
                        IF s.p.ec # NoError THEN s.p
                        ELSE IF validate_fails(s.s)
                        THEN Fail(s.p, "invalid_utf8_text_string")
                        ELSE Visit(s.p, "key", s.s, "none", reply))
               [] major_type = byte_string ->
                    \* more_ = read_byte_string(bytes_buffer_, ec); if (!more_) return;
                    With(read_byte_string(t), LAMBDA b :
                        IF b.p.ec = "exception" THEN b.p
                        ELSE IF ~b.more THEN [b.p EXCEPT !.more_ = FALSE]
                        ELSE Visit(b.p, "key", encode_base64url(b.v), "none", reply))
               [] major_type = unsigned_integer
                    /\ Len(t.stringref_map_stack_) > 0 /\ t.other_tags_.stringref_tag ->
                    With(get_uint64_value([t EXCEPT !.other_tags_.stringref_tag = FALSE]),
                         LAMBDA u :
                    With(t.stringref_map_stack_[Len(t.stringref_map_stack_)],
                         LAMBDA table :
                        IF u.p.ec # NoError THEN u.p
                        ELSE IF AtLeast(u.val, Len(table))
                        THEN Fail(u.p, "stringref_too_large")
                        ELSE With(table[ToNat(u.val) + 1], LAMBDA val :
                                 Visit(u.p, "key",
                                       IF val.type = text_string THEN val.s
                                       ELSE encode_base64url(val.s),
                                       "none", reply))))
               [] OTHER -> read_name_nested(t, reply))))

(***************************************************************************)
(* parse().                                                                *)
(***************************************************************************)
\* the break left in the source
leave_break(p) == p

\* case 0xff: source_.ignore(1)
consume_break(p) == [p EXCEPT !.source_ = src_ignore(@, 1)]

SetBack(p, field, value) ==
    [p EXCEPT !.state_stack_[Len(p.state_stack_)] = [@ EXCEPT ![field] = value]]

\* case parse_mode::before_done
before_done(p) ==
    IF Len(p.state_stack_) # 1 THEN Throw(p)
    ELSE [p EXCEPT !.state_stack_ = <<>>, !.more_ = FALSE, !.done_ = TRUE,
                   !.out = Append(@, Event("flush", <<>>, "none"))]

\* the body of the while (!done_ && more_) loop: one turn
parse_step(p, reply) ==
    With(Back(p).mode, LAMBDA mode :
    With(src_peek(p.source_), LAMBDA c :
    With(SetBack(p, "index", Back(p).index + 1), LAMBDA bump :
    \* the case of switch (state_stack_.back().mode): the call it makes, the
    \* parser it makes it on, and the mode it sets after a name
    With(CASE mode = "multi_dim" ->
                IF Back(p).index = 0 THEN [call |-> "read_item", p |-> bump]
                ELSE [call |-> "produce_end_multi_dim", p |-> p]
           [] mode = "array" ->
                IF IndexBelow(Back(p).index, Back(p).length)
                THEN [call |-> "read_item", p |-> bump]
                ELSE [call |-> "end_array", p |-> p]
           [] mode = "indefinite_array" ->
                IF c = EOF THEN [call |-> "unexpected_eof", p |-> p]
                ELSE IF c = 255 THEN [call |-> "end_array", p |-> consume_break(p)]
                ELSE [call |-> "read_item", p |-> p]
           [] mode = "map_key" ->
                IF IndexBelow(Back(p).index, Back(p).length)
                THEN [call |-> "read_name", p |-> bump, then |-> "map_value"]
                ELSE [call |-> "end_object", p |-> p]
           [] mode = "map_value" ->
                [call |-> "read_item", p |-> SetBack(p, "mode", "map_key")]
           [] mode = "indefinite_map_key" ->
                IF c = EOF THEN [call |-> "unexpected_eof", p |-> p]
                ELSE IF c = 255 THEN [call |-> "end_object", p |-> consume_break(p)]
                ELSE [call |-> "read_name", p |-> p, then |-> "indefinite_map_value"]
           [] mode = "indefinite_map_value" ->
                [call |-> "read_item", p |-> SetBack(p, "mode", "indefinite_map_key")]
           [] mode = "root" ->
                [call |-> "read_item", p |-> SetBack(p, "mode", "before_done")]
           [] OTHER -> [call |-> "before_done", p |-> p],
         LAMBDA turn :
        CASE turn.call = "read_item" -> read_item(turn.p, reply)
          [] turn.call = "read_name" ->
               With(read_name(turn.p, reply), LAMBDA name :
                   IF name.ec # NoError THEN name
                   ELSE SetBack(name, "mode", turn.then))
          [] turn.call = "end_array" -> end_array(turn.p, reply)
          [] turn.call = "end_object" -> end_object(turn.p, reply)
          [] turn.call = "produce_end_multi_dim" -> produce_end_multi_dim(turn.p, reply)
          [] turn.call = "unexpected_eof" -> Fail(p, "unexpected_eof")
          [] OTHER ->  \* before_done
               before_done(p)))))

\* Whether parse() goes on: the loop condition, and no return on an error
Running(p) == ~p.done_ /\ p.more_ /\ p.ec = NoError

\* parse(visitor, ec) with a visitor whose callbacks all return true
parse(p) == IF Running(p) THEN parse(parse_step(p, TRUE)) ELSE p

(***************************************************************************)
(* The state machine: one parser over one input, driven by a caller.       *)
(*                                                                         *)
(* A call of parse() is the run of ParseStep steps up to the state in      *)
(* which the loop is left (done_, !more_, or an error code); every step is *)
(* one turn of the loop and makes at most one visitor callback, whose      *)
(* reply is the step's input.  restart() and reset() are the caller's,     *)
(* between two calls of parse().                                           *)
(***************************************************************************)
\* options_.max_nesting_depth() of the parser under test
MaxNestingDepth == 2

\* the max_nesting_depth of the options of the encoder
MaxEncoderDepth == 2

\* the encoder is explored up to this number of visit_ calls that return true
MaxCalls == 4

\* the reader delivers up to this number of events
MaxEvents == 4

\* what an uninitialised byte of a stack buffer may hold
UninitBytes == {0, 255}

\* head and payload bytes of the inputs explored exhaustively:
\* 01 uint, 19 uint16, 39 negative int16, 41 byte string of 1, 61 text of 1,
\* 81 array of 1, 82 array of 2, 9F indefinite array, A1 map of 1,
\* BF indefinite map, C1 tag 1, FF break
Alphabet == {1, 25, 57, 65, 97, 129, 130, 159, 161, 191, 193, 255}

\* longer inputs: tags, stringref, multi-dimensional arrays, nested keys
Curated ==
    { <<216, 40, 130, 129, 1, 129, 1>>,          \* 40([[1], [1]])
      <<159, 1, 2, 3, 255>>,                     \* [_ 1, 2, 3]
      <<162, 97, 97, 1, 97, 98, 2>>,             \* {"a": 1, "b": 2}
      <<191, 130, 1, 1, 159, 255, 255>>,         \* {_ [1, 1]: [_ ]}
      <<129, 129, 129, 129, 1>>,                 \* [[[[1]]]]
      <<161, 129, 129, 129, 1, 1>>,              \* {[[[1]]]: 1}
      <<191, 1, 129, 129, 129, 1, 1, 1, 255>>,   \* {_ 1: [[[1]]], 1: 1}
      <<129, 161, 129, 1, 1>>,                   \* [{[1]: 1}]
      <<159, 191, 1, 159, 255, 1, 255, 255>>,    \* [_ {_ 1: [_ ], 1: ...
      <<161, 193, 97, 97, 1>>,                   \* {1("a"): 1}
      <<98, 195, 169>>,                          \* "\u00e9"
      <<98, 195, 40>>,                           \* a text string, malformed UTF-8
      <<127, 97, 195, 97, 169, 255>>,            \* (_ "\xc3", "\xa9")
      <<161, 98, 195, 169, 1>>,                  \* {"\u00e9": 1}
      <<161, 98, 195, 40, 1>>,                   \* a key, malformed UTF-8
      \* 256(["abc", 25(0), 25(1)])
      <<217, 1, 0, 131, 99, 97, 98, 99, 216, 25, 0, 216, 25, 1>>,
      \* 256([h'010203', 25(0)])
      <<217, 1, 0, 130, 67, 1, 2, 3, 216, 25, 0>>,
      \* 256({"abc": h'010203', 25(0): 1, 25(1): 25(0)})
      <<217, 1, 0, 163, 99, 97, 98, 99, 67, 1, 2, 3, 216, 25, 0, 1,
        216, 25, 1, 216, 25, 0>>,
      \* 256(["abc", 256([25(0)])])
      <<217, 1, 0, 130, 99, 97, 98, 99, 217, 1, 0, 129, 216, 25, 0>>,
      \* 256([(_ "abc"), 25(0)])
      <<217, 1, 0, 130, 127, 99, 97, 98, 99, 255, 216, 25, 0>>,
      \* 256(["ab", "abc", 25(0)])
      <<217, 1, 0, 131, 98, 97, 98, 99, 97, 98, 99, 216, 25, 0>>,
      <<217, 1, 0, 152>>,                        \* 256 on an array head cut short
      <<244>>, <<245>>, <<246>>, <<247>>,        \* false, true, null, undefined
      <<224>>, <<248, 32>>, <<252>>,             \* simple(0), simple(32), info 28
      <<132, 244, 245, 246, 247>>,               \* [false, true, null, undefined]
      <<161, 97, 97, 245>>,                      \* {"a": true}
      <<161, 244, 1>>,                           \* {false: 1}
      <<161, 248, 32, 1>>,                       \* {simple(32): 1}
      <<191, 1, 224, 255>>,                      \* {_ 1: simple(0)}
      <<193, 246>>,                              \* 1(null)
      <<130, 244, 224>>,                         \* [false, simple(0)]
      <<31>>, <<63>>, <<223, 1>>,                \* info 31 on uint, negative int, tag
      <<130, 31, 1>>, <<161, 63, 1>>,            \* the same in an array, as a key
      <<23>>, <<24, 200>>, <<26, 1, 2, 3, 4>>,   \* 23, 200, 16909060
      <<27, 1, 2, 3, 4, 5, 6, 7, 8>>,            \* 72623859790382856
      <<27, 128, 0, 0, 0, 0, 0, 0, 0>>,          \* 2^63
      <<55>>, <<56, 200>>, <<58, 1, 2, 3, 4>>,   \* -24, -201, -16909061
      <<59, 1, 2, 3, 4, 5, 6, 7, 8>>,            \* -72623859790382857
      <<59, 127, 255, 255, 255, 255, 255, 255, 255>>,  \* -2^63
      <<130, 25, 1, 0, 56, 255>>,                \* [256, -256]
      <<59, 128, 0, 0, 0, 0, 0, 0, 0>>,          \* -1 - 2^63
      <<249, 60, 0>>, <<193, 249, 60, 0>>,       \* 1.0 as a half, 1(the same)
      <<250, 63, 128, 0, 0>>,                    \* 1.0 as a single
      <<193, 250, 63, 128, 0, 0>>,               \* 1(1.0)
      <<193, 251, 63, 240, 0, 0, 0, 0, 0, 0>>,   \* 1(1.0), a double
      <<192, 1>>, <<193, 32>>, <<194, 250, 63, 128, 0, 0>>,  \* 0(1), 1(-1), 2(1.0)
      <<196, 130, 1, 1>>, <<196, 130, 32, 56, 200>>,   \* 4([1, 1]), 4([-1, -201])
      <<196, 130, 1, 194, 65, 1>>,               \* 4([1, 2(h'01')])
      <<196, 129, 1>>, <<196, 131, 1, 1, 1>>,    \* 4([1]), 4([1, 1, 1])
      <<196, 130, 97, 97, 1>>,                   \* 4(["a", 1])
      <<196, 130, 1, 97, 97>>,                   \* 4([1, "a"])
      <<196, 130, 1, 194, 1>>,                   \* 4([1, 2(1)])
      <<197, 130, 1, 1>>, <<197, 130, 32, 56, 200>>,   \* 5([1, 1]), 5([-1, -201])
      <<197, 130, 1, 194, 65, 1>>,               \* 5([1, 2(h'01')])
      <<197, 130, 1, 195, 65, 1>>,               \* 5([1, 3(h'01')])
      <<197, 130, 10, 26, 0, 1, 0, 0>>,          \* 5([10, 65536])
      <<197, 129, 1>>, <<197, 159, 1, 1, 255>>,  \* 5([1]), 5([_ 1, 1])
      <<197, 130, 97, 97, 1>>,                   \* 5(["a", 1])
      <<197, 130, 1, 97, 97>>,                   \* 5([1, "a"])
      <<197, 130, 1, 193, 1>>,                   \* 5([1, 1(1)])
      <<216, 64, 67, 1, 2, 3>>,                  \* 64(h'010203'): uint8
      <<216, 68, 65, 1>>,                        \* 68(h'01'): uint8 clamped
      <<216, 65, 68, 1, 2, 3, 4>>,               \* 65(h'01020304'): uint16 big endian
      <<216, 65, 67, 1, 2, 3>>,                  \* 65(h'010203')
      <<216, 69, 66, 1, 2>>,                     \* 69(h'0102'): uint16 little endian
      <<216, 70, 69, 1, 2, 3, 4, 5>>,            \* 70(h'0102030405'): uint32
      <<216, 82, 72, 63, 240, 0, 0, 0, 0, 0, 0>>,  \* 82(h'3FF0000000000000'): double
      <<216, 86, 67, 1, 2, 3>>,                  \* 86(h'010203')
      <<216, 76, 65, 1>>, <<216, 83, 65, 1>>,    \* 76(h'01'), 83(h'01')
      <<192, 216, 32, 97, 97>>,                  \* 0(32("a"))
      <<216, 32, 192, 97, 97>>,                  \* 32(0("a"))
      <<216, 32, 198, 97, 97>>,                  \* 32(6("a"))
      <<216, 32, 216, 25, 97, 97>>,              \* 32(25("a"))
      <<217, 1, 0, 216, 33, 129, 97, 97>>,       \* 256(33(["a"]))
      <<130, 198, 1, 97, 97>>,                   \* [6(1), "a"]
      <<95, 65, 1, 65, 2, 255>>,                 \* (_ h'01', h'02')
      <<127, 65, 97, 255>>,                      \* (_ h'61') in a text string
      <<95, 97, 97, 255>>,                       \* (_ "a") in a byte string
      <<127, 127, 97, 97, 255, 255>>,            \* (_ (_ "a"))
      <<127, 1, 255>>, <<95, 129, 1, 255>>,      \* an integer, an array for a chunk
      <<216, 25, 97, 97>>, <<216, 25, 32>>,      \* 25("a"), 25(-1)
      <<216, 25, 129, 1>>, <<216, 25, 244>>,     \* 25([1]), 25(false)
      \* 256(["abc", 25("a")])
      <<217, 1, 0, 130, 99, 97, 98, 99, 216, 25, 97, 97>>,
      <<216, 40, 130, 130, 2, 2, 132, 1, 2, 3, 4>>,      \* 40([[2, 2], [1, 2, 3, 4]])
      <<217, 4, 16, 130, 130, 2, 2, 132, 1, 2, 3, 4>>,   \* 1040([[2, 2], [1, 2, 3, 4]])
      <<216, 40, 130, 129, 2, 1>>,                       \* 40([[2], 1])
      <<216, 40, 130, 159, 2, 2, 255, 129, 1>>,          \* 40([[_ 2, 2], [1]])
      <<216, 40, 159, 130, 2, 2, 129, 1, 255>>,          \* 40([_ [2, 2], [1]])
      <<216, 40, 159, 2, 2, 255, 132, 1, 2, 3, 4>>,      \* 40, dimensions up to a break
      <<217, 4, 16, 159, 2, 255, 1>>,
      <<216, 40, 159, 2, 255>>,
      <<26, 0, 0>>,                              \* a uint32 cut short
      <<57, 1>>,                                 \* a negative int16 cut short
      <<130, 57, 1, 0, 32>>,                     \* [-257, -1]
      <<193, 26, 0, 0, 0, 1>> }                  \* 1(1)

(***************************************************************************)
(* basic_msgpack_encoder: a visitor that writes MessagePack.  The encoder   *)
(* is a record e of its members sink_, stack_ and nesting_depth_, with the  *)
(* max_nesting_depth of its options, the error_code out-parameter `ec` and  *)
(* the value `ret` that the last visit_ function returned.                  *)
(***************************************************************************)
stack_item(type, length) == [type_ |-> type, length_ |-> length, count_ |-> 0]

basic_msgpack_encoder(max_nesting_depth) ==
    [sink_ |-> <<>>,
     max_nesting_depth |-> max_nesting_depth,
     stack_ |-> <<>>,
     nesting_depth_ |-> 0,
     ec |-> NoError,
     ret |-> TRUE]

\* a visit_ function that sets the error code and returns false
Refuse(e, errc) == [e EXCEPT !.ec = errc, !.ret = FALSE]

\* a visit_ function that returns true
Accept(e) == [e EXCEPT !.ret = TRUE]

\* the head of an array or a map: fix form, 16 bits, 32 bits; nothing is
\* written for a greater length
container_head(fix_base_cd, cd16, cd32, length) ==
    IF length <= 15 THEN <<fix_base_cd + length>>
    ELSE IF length <= 65535 THEN <<cd16, length \div 256, length % 256>>
    ELSE IF length \div 65536 <= 65535
    THEN <<cd32, length \div 16777216, (length \div 65536) % 256,
           (length \div 256) % 256, length % 256>>
    ELSE <<>>

\* if (!stack_.empty()) ++stack_.back().count_
end_value(e) ==
    IF e.stack_ = <<>> THEN e
    ELSE [e EXCEPT !.stack_[Len(e.stack_)].count_ = @ + 1]

\* visit_begin_object(semantic_tag, ...): no length
visit_begin_object_no_length(e) == Refuse(e, "object_length_required")

\* visit_begin_array(semantic_tag, ...): no length
visit_begin_array_no_length(e) == Refuse(e, "array_length_required")

begin_value(e, type, head) ==
    With([e EXCEPT !.nesting_depth_ = @ + 1], LAMBDA e1 :
        IF e1.nesting_depth_ > e.max_nesting_depth
        THEN Refuse(e1, "max_nesting_depth_exceeded")
        ELSE Accept([e1 EXCEPT !.stack_ = Append(@, stack_item(type, head.length)),
                               !.sink_ = @ \o head.bytes]))

visit_begin_object(e, length) ==
    begin_value(e, "object",
                [length |-> length, bytes |-> container_head(128, 222, 223, length)])

visit_begin_array(e, length) ==
    begin_value(e, "array",
                [length |-> length, bytes |-> container_head(144, 220, 221, length)])

\* visit_end_object and visit_end_array have the same body
end_container_value(e) ==
    IF e.stack_ = <<>> THEN [e EXCEPT !.ec = "exception"]
    ELSE With([e EXCEPT !.nesting_depth_ = @ - 1], LAMBDA e1 :
         With(e.stack_[Len(e.stack_)], LAMBDA back :
             IF back.count_ < back.length_ THEN Refuse(e1, "too_few_items")
             ELSE IF back.count_ > back.length_ THEN Refuse(e1, "too_many_items")
             ELSE Accept(end_value([e1 EXCEPT !.stack_ = Pop(@)]))))

visit_end_object(e) == end_container_value(e)

visit_end_array(e) == end_container_value(e)

\* fixstr, str 8, str 16 or str 32 and the bytes; ser_error on malformed UTF-8
write_string_value(e, sv) ==
    IF validate_fails(sv) THEN [e EXCEPT !.ec = "exception"]
    ELSE [e EXCEPT !.sink_ =
              @ \o (IF Len(sv) <= 31 THEN <<160 + Len(sv)>>
                    ELSE IF Len(sv) <= 255 THEN <<217, Len(sv)>>
                    ELSE <<218, Len(sv) \div 256, Len(sv) % 256>>) \o sv]

\* a key counted as a value
visit_key_counted(e, name) ==
    With(write_string_value(e, name), LAMBDA e1 :
        IF e1.ec = "exception" THEN e1 ELSE Accept(end_value(e1)))

visit_key(e, name) ==
    With(write_string_value(e, name), LAMBDA e1 :
        IF e1.ec = "exception" THEN e1 ELSE Accept(e1))

visit_null(e) == Accept(end_value([e EXCEPT !.sink_ = Append(@, 192)]))

visit_string(e, sv) ==
    With(write_string_value(e, sv), LAMBDA e1 :
        IF e1.ec = "exception" THEN e1 ELSE Accept(end_value(e1)))

visit_bool(e, val) ==
    Accept(end_value([e EXCEPT !.sink_ = Append(@, IF val THEN 195 ELSE 194)]))

(***************************************************************************)
(* typed_array_visitor<T> and deser_traits<T>::deserialize for a typed     *)
(* array T.  The visitor is a record t of the target v_, level_, the       *)
(* error_code `ec` it shares with deserialize and the value `ret` that the *)
(* last visit_ function returned.  value_type is uint8_t.                   *)
(***************************************************************************)
typed_array_visitor ==
    [v_ |-> <<>>, level_ |-> 0, ec |-> NoError, ret |-> TRUE]

\* static_cast<value_type>(value) of an integer
static_cast_value_type(value) == value % 256

\* visit_begin_array, with a size (v_.reserve(size)) and without
typed_array_visit_begin_array(t) ==
    With([t EXCEPT !.level_ = @ + 1], LAMBDA t1 :
        IF t1.level_ # 1 THEN [t1 EXCEPT !.ec = "json_not_vector", !.ret = FALSE]
        ELSE [t1 EXCEPT !.ret = TRUE])

\* visit_end_array returning true where it halts the reader
typed_array_visit_end_array_going_on(t) ==
    IF t.level_ # 1 THEN [t EXCEPT !.ec = "json_not_vector", !.ret = FALSE]
    ELSE [t EXCEPT !.ret = TRUE]

typed_array_visit_end_array(t) ==
    IF t.level_ # 1 THEN [t EXCEPT !.ec = "json_not_vector", !.ret = FALSE]
    ELSE [t EXCEPT !.ret = FALSE]

\* visit_uint64, visit_int64, and visit_half for an integral value_type
typed_array_visit_integer(t, value) ==
    [t EXCEPT !.v_ = Append(@, static_cast_value_type(value)), !.ret = TRUE]

\* visit_double; the value is given in halves and the cast drops the fraction
typed_array_visit_double(t, halves) ==
    [t EXCEPT !.v_ = Append(@, static_cast_value_type(halves \div 2)), !.ret = TRUE]

\* v_ = std::vector<value_type>(data.begin(), data.end()); return false
typed_array_visit_typed_array(t, data) ==
    [t EXCEPT !.v_ = data, !.ret = FALSE]

\* every other event: default_json_visitor(false, convert_errc::json_not_vector)
typed_array_visit_default(t) ==
    [t EXCEPT !.ec = "json_not_vector", !.ret = FALSE]

Inputs == (UNION {[1..k -> Alphabet] : k \in 0..MaxLen}) \cup Curated

VARIABLES
    source_,               \* the byte source and the read position in it
    more_, done_,
    item_tag_, other_tags_,
    state_stack_, stringref_map_stack_,
    nesting_depth_,
    ec,                    \* the error code the last parse() step left
    out,                   \* the visitor callbacks since construction / reset()
    halted,                \* the last callback returned false, no restart() since
    interrupted,           \* some callback has returned false
    resumed,               \* parse() was entered again after an error code
    was_reset,             \* reset() has been called
    encoder,               \* a basic_msgpack_encoder
    encoder_calls,         \* the visit_ calls on it that have returned true
    array_visitor,         \* a typed_array_visitor and its target
    reader                 \* the reader that deserialize() reads it from

\* the parser and what the model records of its run
parser_vars == <<source_, more_, done_, item_tag_, other_tags_, state_stack_,
                 stringref_map_stack_, nesting_depth_, ec, out, halted, interrupted,
                 resumed, was_reset>>

encoder_vars == <<encoder, encoder_calls>>

visitor_vars == <<array_visitor, reader>>

vars == <<parser_vars, encoder_vars, visitor_vars>>

\* the parser object of the current state; j fills uninitialised buffers
Self(j) ==
    [source_ |-> source_,
     max_nesting_depth |-> MaxNestingDepth,
     more_ |-> more_,
     done_ |-> done_,
     item_tag_ |-> item_tag_,
     other_tags_ |-> other_tags_,
     state_stack_ |-> state_stack_,
     stringref_map_stack_ |-> stringref_map_stack_,
     nesting_depth_ |-> nesting_depth_,
     uninit |-> j,
     ec |-> ec,
     out |-> out]

Assign(q) ==
    /\ source_' = q.source_
    /\ more_' = q.more_
    /\ done_' = q.done_
    /\ item_tag_' = q.item_tag_
    /\ other_tags_' = q.other_tags_
    /\ state_stack_' = q.state_stack_
    /\ stringref_map_stack_' = q.stringref_map_stack_
    /\ nesting_depth_' = q.nesting_depth_
    /\ ec' = q.ec
    /\ out' = q.out

Fresh(input) == basic_cbor_parser([data |-> input, pos |-> 0, eof |-> FALSE],
                                  MaxNestingDepth, 0)

\* a parser newly constructed over one of these inputs
Constructed(inputs) ==
    /\ \E input \in inputs :
           LET q == Fresh(input)
           IN  /\ source_ = q.source_
               /\ more_ = q.more_
               /\ done_ = q.done_
               /\ item_tag_ = q.item_tag_
               /\ other_tags_ = q.other_tags_
               /\ state_stack_ = q.state_stack_
               /\ stringref_map_stack_ = q.stringref_map_stack_
               /\ nesting_depth_ = q.nesting_depth_
               /\ ec = q.ec
               /\ out = q.out
    /\ halted = FALSE
    /\ interrupted = FALSE
    /\ resumed = FALSE
    /\ was_reset = FALSE

\* a reader at the first of these events
basic_staj_reader(events) == [events |-> events, pos |-> 1, more_ |-> TRUE]

\* an encoder and a visitor newly constructed, with nothing to read
NoEncoding == encoder = basic_msgpack_encoder(MaxEncoderDepth) /\ encoder_calls = <<>>

NoDeserializing ==
    array_visitor = typed_array_visitor /\ reader = basic_staj_reader(<<>>)

Init == Constructed(Inputs) /\ NoEncoding /\ NoDeserializing

\* stopped() and done()
stopped == ~more_
done == done_

\* One turn of the loop of parse().  A turn taken while ec holds an error is
\* the first turn of a new call, made with a cleared error_code.
ParseStep ==
    /\ ~done_ /\ more_
    /\ nesting_depth_ <= MaxNestingDepth + DepthSlack
    /\ \E reply \in BOOLEAN, j \in UninitBytes :
           LET q == parse_step([Self(j) EXCEPT !.ec = NoError], reply)
           IN  /\ Assign(q)
               /\ halted' = (Len(out') > Len(out) /\ ~done_' /\ ~reply)
               /\ interrupted' = (interrupted \/ halted')
    /\ resumed' = (resumed \/ ec # NoError)
    /\ UNCHANGED was_reset
    /\ UNCHANGED <<encoder_vars, visitor_vars>>

\* Restart with the frames dropped as reset() drops them
RestartFromRoot ==
    /\ ~more_ /\ ec = NoError
    /\ more_' = TRUE
    /\ halted' = FALSE
    /\ state_stack_' = IF done_ THEN state_stack_
                       ELSE <<parse_state("root", Zero64, FALSE)>>
    /\ UNCHANGED <<source_, done_, item_tag_, other_tags_,
                   stringref_map_stack_, nesting_depth_, ec, out, interrupted,
                   resumed, was_reset>>
    /\ UNCHANGED <<encoder_vars, visitor_vars>>

\* restart() clearing done_ as well
RestartClearingDone ==
    /\ ~more_ /\ ec = NoError
    /\ more_' = TRUE
    /\ done_' = FALSE
    /\ halted' = FALSE
    /\ UNCHANGED <<source_, item_tag_, other_tags_, state_stack_,
                   stringref_map_stack_, nesting_depth_, ec, out, interrupted,
                   resumed, was_reset>>
    /\ UNCHANGED <<encoder_vars, visitor_vars>>

\* restart(): the caller resumes a parser that a visitor has halted (or
\* calls it on a parser that is done)
Restart ==
    /\ ~more_ /\ ec = NoError
    /\ more_' = TRUE
    /\ halted' = FALSE
    /\ UNCHANGED <<source_, done_, item_tag_, other_tags_, state_stack_,
                   stringref_map_stack_, nesting_depth_, ec, out, interrupted,
                   resumed, was_reset>>
    /\ UNCHANGED <<encoder_vars, visitor_vars>>

\* reset() clearing the frame stack without the root frame
ResetWithoutRoot ==
    /\ done_ \/ ~more_ \/ ec # NoError
    /\ state_stack_' = <<>>
    /\ more_' = TRUE
    /\ done_' = FALSE
    /\ ec' = NoError
    /\ out' = <<>>
    /\ halted' = FALSE
    /\ interrupted' = FALSE
    /\ resumed' = FALSE
    /\ was_reset' = TRUE
    /\ UNCHANGED <<source_, item_tag_, other_tags_, stringref_map_stack_, nesting_depth_>>
    /\ UNCHANGED <<encoder_vars, visitor_vars>>

\* reset(), called after parse() has returned; the caller starts over
\* with a cleared error_code and an empty log
Reset ==
    /\ done_ \/ ~more_ \/ ec # NoError
    /\ state_stack_' = <<parse_state("root", Zero64, FALSE)>>
    /\ more_' = TRUE
    /\ done_' = FALSE
    /\ ec' = NoError
    /\ out' = <<>>
    /\ halted' = FALSE
    /\ interrupted' = FALSE
    /\ resumed' = FALSE
    /\ was_reset' = TRUE
    /\ UNCHANGED <<source_, item_tag_, other_tags_, stringref_map_stack_, nesting_depth_>>
    /\ UNCHANGED <<encoder_vars, visitor_vars>>

Next == ParseStep \/ Restart \/ Reset

Spec == Init /\ [][Next]_vars

(***************************************************************************)
(* Vocabulary of the properties.                                           *)
(***************************************************************************)
IsPrefix(s, t) == Len(s) <= Len(t) /\ SubSeq(t, 1, Len(s)) = s

\* the source as it was handed to the constructor
InitialSource == [data |-> source_.data, pos |-> 0, eof |-> FALSE]

\* one call of parse() on a new parser over the same input, with a visitor
\* whose callbacks all return true
Uninterrupted(j) == parse(basic_cbor_parser(InitialSource, MaxNestingDepth, j))

\* the run so far is the first one of the parser, and the caller has not
\* entered parse() again after an error code
FirstRun == ~was_reset /\ ~resumed

\* an error code, as opposed to no error or an exception thrown
IsErrorCode(e) == e \notin {NoError, "exception"}

(***************************************************************************)
(* Well-formed encodings (spec.md, data model; RFC 8949 appendix C).  For  *)
(* a byte sequence d and an index i, item_end(d, i) is the index after the *)
(* data item that starts at d[i], Truncated when d ends before the item    *)
(* does, Malformed when no continuation of d makes it an item.             *)
(***************************************************************************)
Truncated == 0
Malformed == -1

\* the number of argument bytes that follow a head with this info
argument_length(info) ==
    CASE info <= 23 -> 0 [] info = 24 -> 1 [] info = 25 -> 2
      [] info = 26 -> 4 [] info = 27 -> 8 [] OTHER -> Malformed

\* the index after the head and its argument
head_end(d, i) ==
    LET n == argument_length(d[i] % 32)
    IN  IF n = Malformed THEN Malformed
        ELSE IF i + n > Len(d) THEN Truncated
        ELSE i + 1 + n

\* the argument, cut off at Len(d) + 1: no count or length above Len(d) can
\* be met by d
head_argument(d, i) ==
    LET n == argument_length(d[i] % 32)
        v == big_to_native(SubSeq(d, i + 1, i + n))
    IN  IF n = 0 THEN d[i] % 32
        ELSE IF IsSmall(v) THEN Min(ToNat(v), Len(d) + 1)
        ELSE Len(d) + 1

RECURSIVE item_end(_, _)
RECURSIVE items_end(_, _, _)
RECURSIVE items_until_break(_, _, _)
RECURSIVE chunks_end(_, _, _)

\* n items in a row
items_end(d, i, n) ==
    IF n = 0 THEN i
    ELSE LET e == item_end(d, i)
         IN  IF e <= 0 THEN e ELSE items_end(d, e, n - 1)

\* groups of `group` items up to a break
items_until_break(d, i, group) ==
    IF i > Len(d) THEN Truncated
    ELSE IF d[i] = 255 THEN i + 1
    ELSE LET e == items_end(d, i, group)
         IN  IF e <= 0 THEN e ELSE items_until_break(d, e, group)

\* definite-length chunks of the major type mt up to a break
chunks_end(d, i, mt) ==
    IF i > Len(d) THEN Truncated
    ELSE IF d[i] = 255 THEN i + 1
    ELSE IF d[i] \div 32 # mt \/ d[i] % 32 = indefinite_length THEN Malformed
    ELSE LET e == item_end(d, i)
         IN  IF e <= 0 THEN e ELSE chunks_end(d, e, mt)

item_end(d, i) ==
    IF i > Len(d) THEN Truncated
    ELSE LET mt == d[i] \div 32
             info == d[i] % 32
             h == head_end(d, i)
             n == head_argument(d, i)
         IN  CASE mt \in {unsigned_integer, negative_integer} -> h
               [] mt \in {byte_string, text_string} ->
                    IF info = indefinite_length THEN chunks_end(d, i + 1, mt)
                    ELSE IF h <= 0 THEN h
                    ELSE IF h + n > Len(d) + 1 THEN Truncated
                    ELSE h + n
               [] mt = array ->
                    IF info = indefinite_length THEN items_until_break(d, i + 1, 1)
                    ELSE IF h <= 0 THEN h
                    ELSE items_end(d, h, n)
               [] mt = map ->
                    IF info = indefinite_length THEN items_until_break(d, i + 1, 2)
                    ELSE IF h <= 0 THEN h
                    ELSE items_end(d, h, 2 * n)
               [] mt = semantic_tag ->
                    IF h <= 0 THEN h ELSE item_end(d, h)
               [] OTHER ->
                    IF info = indefinite_length THEN Malformed ELSE h

\* d is one data item and nothing else
WellFormed(d) == item_end(d, 1) = Len(d) + 1

\* d is the beginning of a data item that ends after d does
IsTruncated(d) == item_end(d, 1) = Truncated

(***************************************************************************)
(* Halting, resuming, errors.                                              *)
(***************************************************************************)
\* C1: a run in which the visitor halts the parser and the caller answers
\* every halt with restart() and parse() delivers the events of the
\* uninterrupted run: at every point the events so far are a prefix of the
\* uninterrupted run's, and when the run ends (done, or an error code) the
\* events, the error code, done() and the read position are the same.
C1_HaltResume ==
    FirstRun =>
        \E j \in UninitBytes :
            LET r == Uninterrupted(j)
            IN  /\ IsPrefix(out, r.out)
                /\ (done_ \/ ec # NoError) =>
                       /\ out = r.out
                       /\ ec = r.ec
                       /\ done_ = r.done_
                       /\ source_.pos = r.source_.pos

\* a run through a map in an array that was halted and has reached done()
C1_Witness ==
    /\ FirstRun /\ interrupted /\ done_
    /\ Len(out) >= 6
    /\ \E k \in DOMAIN out : out[k].ev = "key"

\* C2: when a callback returns false the parser is stopped and not done, the
\* loop of parse() is left with no further callback (flush included), and the
\* step leaves the frame stack, the read position and the depth as the same
\* step with a callback returning true leaves them.
C2_HaltKeepsState ==
    /\ [](halted => stopped /\ ~done_ /\ ~ENABLED ParseStep)
    /\ [][halted' =>
              \E j \in UninitBytes :
                  LET q == parse_step([Self(j) EXCEPT !.ec = NoError], TRUE)
                  IN  /\ state_stack_' = q.state_stack_
                      /\ source_' = q.source_
                      /\ nesting_depth_' = q.nesting_depth_
                      /\ out' = q.out
                      /\ ~q.done_]_vars

\* halted by the callback of an item two containers deep
C2_Witness ==
    /\ halted /\ stopped
    /\ Len(state_stack_) >= 3
    /\ out[Len(out)].ev \in {"uint64", "key", "end_array"}

\* C3: once parse() has reported an error code, stopped() is true, and until
\* reset() no step of the parser delivers a callback or consumes input.
C3_ErrorLatch ==
    /\ [](IsErrorCode(ec) => stopped)
    /\ [][(IsErrorCode(ec) \/ resumed) =>
              (Reset \/ (out' = out /\ source_' = source_))]_vars

\* C4: on an input that ends inside a data item the parser never gets to
\* done(); a step in which a read finds the source exhausted reports
\* unexpected_eof; and a step that reports unexpected_eof delivers no event.
C4_Truncation ==
    /\ []((FirstRun /\ IsTruncated(source_.data)) => ~done_)
    /\ [][/\ (~source_.eof /\ source_'.eof) => ec' = "unexpected_eof"
          /\ ec' = "unexpected_eof" => out' = out]_vars

(***************************************************************************)
(* The shape of the event sequence.                                        *)
(***************************************************************************)
Mismatch == <<"mismatch">>

\* The containers a log of events leaves open, outermost first, or Mismatch
\* when an end event does not close the container opened last.
RECURSIVE open_containers(_)
open_containers(log) ==
    IF log = <<>> THEN <<>>
    ELSE LET st == open_containers(SubSeq(log, 1, Len(log) - 1))
             ev == log[Len(log)].ev
             closes(kind) == IF st # <<>> /\ st[Len(st)] = kind
                             THEN SubSeq(st, 1, Len(st) - 1) ELSE Mismatch
         IN  IF st = Mismatch THEN Mismatch
             ELSE CASE ev = "begin_array" -> Append(st, "array")
                    [] ev = "begin_object" -> Append(st, "object")
                    [] ev = "begin_multi_dim" -> Append(st, "multi_dim")
                    [] ev = "end_array" -> closes("array")
                    [] ev = "end_object" -> closes("object")
                    [] ev = "end_multi_dim" -> closes("multi_dim")
                    [] OTHER -> st

\* C5: the begin and end events are well nested at every point of every run,
\* and when the parser is done every container begun has been ended by the
\* end event of its kind, flush being the last event.
C5_WellNested ==
    /\ open_containers(out) # Mismatch
    /\ done_ => /\ open_containers(SubSeq(out, 1, Len(out) - 1)) = <<>>
                /\ out[Len(out)].ev = "flush"

\* a well-formed input with a container in a container, parsed until done()
C5_Witness ==
    /\ done_ /\ FirstRun
    /\ WellFormed(source_.data)
    /\ \E k \in DOMAIN out :
           /\ Len(open_containers(SubSeq(out, 1, k))) >= 2
           /\ open_containers(SubSeq(out, 1, k))[1] # open_containers(SubSeq(out, 1, k))[2]

\* The children of the containers of a log: stack holds, for every container
\* left open, its kind, the argument of its begin event (the declared length,
\* <<>> when indefinite) and the number of direct children delivered so far;
\* counts_ok tells that every definite-length container ended so far had the
\* children it declared, pairs_ok that the children of every indefinite-length
\* map were a key, a value, a key, a value, ...
RECURSIVE tally(_)
tally(log) ==
    IF log = <<>> THEN [stack |-> <<>>, counts_ok |-> TRUE, pairs_ok |-> TRUE]
    ELSE LET t == tally(SubSeq(log, 1, Len(log) - 1))
             e == log[Len(log)]
             top == t.stack[Len(t.stack)]
             definite == top.arg # <<>>
             \* in a map a child is a key exactly when an even number came before
             in_turn == top.kind = "object" => ((top.count % 2 = 0) <=> (e.ev = "key"))
             as_declared ==
                 CASE top.kind = "array" -> IsSmall(top.arg) /\ top.count = ToNat(top.arg)
                   [] top.kind = "object" -> IsSmall(top.arg) /\ top.count = 2 * ToNat(top.arg)
                   [] OTHER -> TRUE
             child == IF t.stack = <<>> THEN t
                      ELSE [stack |-> [t.stack EXCEPT ![Len(t.stack)].count = @ + 1],
                            counts_ok |-> t.counts_ok /\ (definite => in_turn),
                            pairs_ok |-> t.pairs_ok /\ (~definite => in_turn)]
             begin(kind) == [child EXCEPT !.stack =
                                Append(@, [kind |-> kind, arg |-> e.arg, count |-> 0])]
             end == IF t.stack = <<>> THEN t
                    ELSE [stack |-> SubSeq(t.stack, 1, Len(t.stack) - 1),
                          counts_ok |-> t.counts_ok /\ (definite => as_declared),
                          pairs_ok |-> t.pairs_ok
                                       /\ (~definite /\ top.kind = "object"
                                               => top.count % 2 = 0)]
         IN  CASE e.ev = "begin_array" -> begin("array")
               [] e.ev = "begin_object" -> begin("object")
               [] e.ev = "begin_multi_dim" -> begin("multi_dim")
               [] e.ev \in {"end_array", "end_object", "end_multi_dim"} -> end
               [] e.ev = "flush" -> t
               [] OTHER -> child

\* C6: every definite-length array that has been ended had exactly the declared
\* number n of direct children, and every definite-length map exactly n keys,
\* each followed by its value.
C6_DeclaredLength == tally(out).counts_ok

\* the same on the first run of the parser, with no parse() after an error code
C6_FirstRun == FirstRun => tally(out).counts_ok

\* a map of one pair after an array of two, ended
C6_Witness ==
    /\ FirstRun /\ done_ /\ tally(out).counts_ok
    /\ \E k \in DOMAIN out : out[k].ev = "begin_array" /\ out[k].arg = U64(2)
    /\ \E k \in DOMAIN out : out[k].ev = "begin_object" /\ out[k].arg = U64(1)

\* the modes of a frame of an indefinite-length container
indefinite_modes == {"indefinite_array", "indefinite_map_key", "indefinite_map_value"}

\* the parser is in the loop of parse(), at a frame of one of these modes
At(modes) ==
    /\ more_ /\ ~done_ /\ state_stack_ # <<>>
    /\ state_stack_[Len(state_stack_)].mode \in modes

\* the step delivers this one event more
Delivers(ev) == out' = Append(out, Event(ev, <<>>, "none"))

\* C7: a step at an indefinite-length container ends the container exactly
\* when the next byte, where a child (a key, in a map) would start, is 0xFF;
\* it then consumes that one byte, delivers the one end event and pops the
\* frame; no other step at the container delivers an end event or pops it.
C7_BreakCloses ==
    [][(At(indefinite_modes) /\ ~Reset) =>
          IF At({"indefinite_array", "indefinite_map_key"}) /\ src_peek(source_) = 255
          THEN /\ Delivers(IF At({"indefinite_array"}) THEN "end_array" ELSE "end_object")
               /\ source_'.pos = source_.pos + 1
               /\ state_stack_' = Pop(state_stack_)
          ELSE /\ Len(state_stack_') >= Len(state_stack_)
               /\ state_stack_'[Len(state_stack_)].mode \in indefinite_modes
               /\ out' # out =>
                      out'[Len(out')].ev \notin {"end_array", "end_object"}]_vars

\* an indefinite-length map in an indefinite-length array, both ended
C7_Witness ==
    /\ FirstRun /\ done_
    /\ \E k \in DOMAIN out : out[k].ev = "begin_array" /\ out[k].arg = <<>>
    /\ \E k \in DOMAIN out : out[k].ev = "begin_object" /\ out[k].arg = <<>>
    /\ \E k \in DOMAIN out : out[k].ev = "end_object"

\* C8: the children of an indefinite-length map are a key, a value, a key, a
\* value, ... whatever the keys are and however often the parser is halted and
\* restarted; a break where a value is due is an error and ends nothing.
C8_KeyValueAlternate ==
    /\ [](tally(out).pairs_ok)
    /\ [][(At({"indefinite_map_value"}) /\ src_peek(source_) = 255 /\ ~Reset) =>
              (IsErrorCode(ec') /\ out' = out)]_vars

\* the same on the first run of the parser, with no parse() after an error code
C8_FirstRun ==
    /\ [](FirstRun => tally(out).pairs_ok)
    /\ [][(At({"indefinite_map_value"}) /\ src_peek(source_) = 255 /\ ~Reset) =>
              (IsErrorCode(ec') /\ out' = out)]_vars

\* C9: nesting_depth_ never exceeds max_nesting_depth.
C9_DepthBounded == nesting_depth_ <= MaxNestingDepth

\* the containers open at the frames of the stack
open_frames ==
    Cardinality({k \in DOMAIN state_stack_ :
                    state_stack_[k].mode \notin {"root", "before_done", "multi_dim"}})

\* the next item is a container: an array or a map, no tag before it
AtContainerHead ==
    /\ src_peek(source_) # EOF
    /\ get_major_type(src_peek(source_)) \in {array, map}

\* the frame on top expects an item: an element, a map value or a map key
AtItemStart ==
    LET f == state_stack_[Len(state_stack_)]
    IN  CASE f.mode \in {"array", "map_key"} -> IndexBelow(f.index, f.length)
          [] f.mode \in {"indefinite_array", "indefinite_map_key"} -> src_peek(source_) # 255
          [] f.mode = "multi_dim" -> f.index = 0
          [] f.mode = "before_done" -> FALSE
          [] OTHER -> TRUE

\* C10: on the first run, a step that meets a container where an element, a
\* map value or a map key is due reports max_nesting_depth_exceeded and
\* delivers no event when max_nesting_depth containers are open already, and
\* does not report it when fewer are open.
C10_DepthLimit ==
    [][(FirstRun /\ At({"array", "indefinite_array", "map_key", "map_value",
                        "indefinite_map_key", "indefinite_map_value", "root"})
        /\ AtItemStart /\ AtContainerHead /\ ~Reset) =>
          IF open_frames >= MaxNestingDepth
          THEN ec' = "max_nesting_depth_exceeded" /\ out' = out
          ELSE ec' # "max_nesting_depth_exceeded"]_vars

(***************************************************************************)
(* Tags and strings.                                                       *)
(***************************************************************************)
\* C11: the flags that the tags before a data item set are consumed by the
\* turn of the loop that reads the item: on the first run, whenever a turn has
\* ended without an error (a value or a key has been read, a container begun
\* or ended, the top-level item completed), stringref, stringref_namespace
\* and item_tag are all clear.
C11_TagsConsumed == (FirstRun /\ ec = NoError) => other_tags_ = NoTags

\* the parser after the tags of the item that the turn of the loop is about to
\* read, when the turn reads an item or a key
AfterTags == read_tags([Self(0) EXCEPT !.ec = NoError])

\* the turn of the loop reads an item or a key whose head, after its tags, has
\* this major type
AtHeadOf(major_type) ==
    /\ At({"array", "indefinite_array", "map_key", "map_value", "indefinite_map_key",
           "indefinite_map_value", "multi_dim", "root"})
    /\ AtItemStart
    /\ AfterTags.ec = NoError
    /\ src_peek(AfterTags.source_) # EOF
    /\ get_major_type(src_peek(AfterTags.source_)) = major_type

\* the bytes of the definite-length string whose head is next after the tags,
\* <<>> when the input ends before the string does
HeadPayload ==
    LET d == source_.data
        i == AfterTags.source_.pos + 1
        h == head_end(d, i)
        n == head_argument(d, i)
    IN  IF h > 0 /\ h + n <= Len(d) + 1 THEN SubSeq(d, h, h + n - 1) ELSE <<>>

\* the event that the step delivers, when it delivers one
Delivered == out'[Len(out')]

AtStringref ==
    /\ AtHeadOf(unsigned_integer)
    /\ AfterTags.other_tags_.stringref_tag
    /\ stringref_map_stack_ # <<>>
    /\ head_end(source_.data, AfterTags.source_.pos + 1) > 0

\* the index that the reference holds (cut off above the length of the input)
StringrefIndex == head_argument(source_.data, AfterTags.source_.pos + 1)

\* the innermost table
InnermostTable == stringref_map_stack_[Len(stringref_map_stack_)]

\* C13: a turn of the loop that reads a reference i with a table active
\* reports stringref_too_large and delivers nothing when i is not below the
\* size of the innermost table; otherwise it delivers exactly one event for
\* the entry i of the innermost table: in key position a key (the text, or
\* the base64url form of the bytes), in value position a string for a text
\* entry and, no item tag pending, a byte string for a byte entry.
C13_Stringref ==
    [][(AtStringref /\ ~Reset) =>
          IF StringrefIndex >= Len(InnermostTable)
          THEN ec' = "stringref_too_large" /\ out' = out /\ ~more_'
          ELSE LET entry == InnermostTable[StringrefIndex + 1]
               IN  /\ ec' = NoError
                   /\ out' = Append(out, Delivered)
                   /\ IF At({"map_key", "indefinite_map_key"})
                      THEN /\ Delivered.ev = "key"
                           /\ Delivered.arg = IF entry.type = text_string THEN entry.s
                                              ELSE encode_base64url(entry.s)
                      ELSE IF entry.type = text_string
                      THEN Delivered.ev = "string" /\ Delivered.arg = entry.s
                      ELSE AfterTags.other_tags_.item_tag
                           \/ (Delivered.ev = "byte_string" /\ Delivered.arg = entry.s)]_vars

\* in a namespace inside a namespace whose table holds "abc", the reference
\* 0 has been rejected against the empty inner table
C13_Witness ==
    /\ FirstRun /\ ec = "stringref_too_large"
    /\ Len(stringref_map_stack_) = 2
    /\ Len(stringref_map_stack_[1]) = 1 /\ stringref_map_stack_[2] = <<>>
    /\ \E k \in DOMAIN out : out[k].ev = "string" /\ out[k].arg = <<97, 98, 99>>

\* the stringref tables after s has been appended to the innermost one
Appended(type, s) ==
    [stringref_map_stack_ EXCEPT ![Len(stringref_map_stack_)] =
         Append(@, mapped_string(type, s))]

\* the additional information of the head that is next after the tags
HeadInfo == get_additional_information_value(src_peek(AfterTags.source_))

\* the tables after a turn of the loop has decoded the string s of this
\* type: s is appended to the innermost table exactly when it is not shorter
\* than the table's size asks for
AppendRule(type, s) ==
    stringref_map_stack_' =
        IF Len(s) >= min_length_for_stringref(Len(InnermostTable))
        THEN Appended(type, s)
        ELSE stringref_map_stack_

\* C14: with a stringref table active, a turn of the loop that decodes a text
\* string (of definite length or in chunks) or a definite-length byte string
\* and delivers its event appends the string to the innermost table exactly
\* when its length is at least min_length_for_stringref of the table's size,
\* and appends nothing else.
C14_AppendRule ==
    [][(stringref_map_stack_ # <<>> /\ ~Reset /\ ec' = NoError /\ out' # out) =>
          /\ AtHeadOf(text_string) => AppendRule(text_string, Delivered.arg)
          /\ (AtHeadOf(byte_string) /\ HeadInfo # indefinite_length) =>
                 AppendRule(byte_string, HeadPayload)]_vars

\* the same for strings of definite length only
C14_DefiniteLength ==
    [][(stringref_map_stack_ # <<>> /\ ~Reset /\ ec' = NoError /\ out' # out
        /\ HeadInfo # indefinite_length) =>
          /\ AtHeadOf(text_string) => AppendRule(text_string, Delivered.arg)
          /\ AtHeadOf(byte_string) => AppendRule(byte_string, HeadPayload)]_vars

(***************************************************************************)
(* reset() and the stringref namespaces.                                   *)
(***************************************************************************)
\* the frames that pop a stringref table when their container ends
namespace_frames ==
    {k \in DOMAIN state_stack_ : state_stack_[k].pop_stringref_map_stack}

\* C15: in every reachable state, after reset() too, there are as many
\* stringref tables as there are open frames whose pop_stringref_map_stack
\* flag is set: a table is pushed with the frame of the item tagged 256 and
\* popped with it.
C15_NamespaceScope == Len(stringref_map_stack_) = Cardinality(namespace_frames)

\* the same on the first run of the parser, in the states with no error code
C15_FirstRun == (FirstRun /\ ec = NoError) => C15_NamespaceScope

\* the bytes that the source has not delivered yet, as a new source
RestOfSource ==
    [data |-> SubSeq(source_.data, source_.pos + 1, Len(source_.data)),
     pos |-> 0, eof |-> FALSE]

\* reset() has been called and parse() not yet entered again
JustReset ==
    /\ was_reset /\ more_ /\ ~done_
    /\ state_stack_ = <<parse_state("root", Zero64, FALSE)>>

\* C16: after reset(), in whatever state it was called, one parse() delivers
\* the events and ends with the error code and done() that a newly
\* constructed parser delivers and ends with on the same bytes, those that
\* the source still holds.
C16_ResetAsNew ==
    JustReset =>
        \A j \in UninitBytes :
            LET again == parse([Self(j) EXCEPT !.ec = NoError])
                new == parse(basic_cbor_parser(RestOfSource, MaxNestingDepth, j))
            IN  /\ again.out = new.out
                /\ again.ec = new.ec
                /\ again.done_ = new.done_

\* what does hold of reset(): called where no container is open, no
\* stringref table is kept and no tag is pending, it gives a parser that
\* behaves as a newly constructed one
C16_ResetAtTopLevel ==
    (/\ JustReset
     /\ nesting_depth_ = 0
     /\ stringref_map_stack_ = <<>>
     /\ other_tags_ = NoTags) => C16_ResetAsNew

\* the number of data items of a log that lie in no container
TopLevelItems(log) ==
    Cardinality({k \in DOMAIN log :
                    /\ log[k].ev # "flush"
                    /\ open_containers(SubSeq(log, 1, k - 1)) = <<>>})

\* the log is the events of one complete data item and then one flush
OneItemThenFlush(log) ==
    /\ log # <<>>
    /\ log[Len(log)].ev = "flush"
    /\ LET item == SubSeq(log, 1, Len(log) - 1)
       IN  /\ \A k \in DOMAIN item : item[k].ev # "flush"
           /\ open_containers(item) = <<>>
           /\ TopLevelItems(item) = 1

\* C17: on a well-formed input, flush is delivered only as the last callback
\* and only once, the parser is done exactly when flush has been delivered,
\* what was delivered then is the events of exactly one top-level item and
\* the flush, and a parse() that returns with no error and no callback
\* having halted it has reached done(); restart() after a halt on the last
\* event of the item included.
C17_Completion ==
    (~was_reset /\ WellFormed(source_.data)) =>
        /\ \A k \in DOMAIN out : out[k].ev = "flush" => (k = Len(out) /\ done_)
        /\ done_ => OneItemThenFlush(out)
        /\ (~more_ /\ ec = NoError /\ ~halted) => done_

\* what does hold: the same for the runs in which parse() is not entered
\* again after an error code or an exception
C17_FirstRun == FirstRun => C17_Completion

(***************************************************************************)
(* Simple values, malformed heads and integers.                            *)
(***************************************************************************)
\* the positions in which the loop calls read_item, and those in which it
\* calls read_name
ItemModes == {"array", "indefinite_array", "map_value", "indefinite_map_value",
              "multi_dim", "root"}
KeyModes == {"map_key", "indefinite_map_key"}

\* the event of the simple value with this additional info
SimpleEvent(info) ==
    CASE info = 20 -> Event("bool", <<0>>, "none")
      [] info = 21 -> Event("bool", <<1>>, "none")
      [] info = 22 -> Event("null", <<>>, "none")
      [] info = 23 -> Event("null", <<>>, "undefined")

\* C18: a turn of the loop that reads an item whose head, after its tags, has
\* major type 7 delivers false, true, null or undefined, and nothing else,
\* when the additional info is 20, 21, 22 or 23; when the additional info is
\* none of 20 to 23, 25, 26 and 27 the turn, in the position of an item or of
\* a key, reports unknown_type, delivers no event and stops the parser.  (A
\* break that closes an indefinite-length container is no head of an item.)
C18_SimpleValues ==
    [][(AtHeadOf(simple) /\ ~Reset) =>
          /\ (HeadInfo \in 20..23 /\ At(ItemModes)) =>
                 /\ out' = Append(out, SimpleEvent(HeadInfo))
                 /\ ec' = NoError
                 /\ source_'.pos = AfterTags.source_.pos + 1
          /\ HeadInfo \notin {20, 21, 22, 23, 25, 26, 27} =>
                 /\ ec' = "unknown_type"
                 /\ out' = out
                 /\ ~more_']_vars

\* false delivered as the first element of an array, and simple(0) rejected
\* as the second
C18_Witness ==
    /\ FirstRun /\ source_.data = <<130, 244, 224>>
    /\ ec = "unknown_type" /\ stopped
    /\ Len(out) = 2 /\ out[2] = SimpleEvent(20)

\* the byte at which the item or key that the turn of the loop reads begins
NextHead == AsByte(src_peek(source_))

\* the turn of the loop reads an item or a key
AtItem ==
    /\ At(ItemModes \cup KeyModes) /\ AtItemStart
    /\ src_peek(source_) # EOF

\* the turn rejects what it reads: an error code and no event
Rejects == ec' # NoError /\ out' = out

\* a break where an item is due and no indefinite-length container takes it
\* as its end: at top level, as an element or a key of a definite-length
\* container, or as the value of a key
C19_StrayBreak ==
    [][(/\ AtItem /\ NextHead = 255
        /\ At({"root", "array", "multi_dim", "map_key", "map_value",
               "indefinite_map_value"})
        /\ ~Reset) => Rejects]_vars

\* C19: a turn of the loop that meets additional info 31 on the head of an
\* unsigned integer, a negative integer or a tag, or a break where no
\* indefinite-length container expects its next child, ends with an error
\* code and delivers no event.
C19_Rejects ==
    /\ [][(/\ AtItem
           /\ get_major_type(NextHead) \in {unsigned_integer, negative_integer, semantic_tag}
           /\ get_additional_information_value(NextHead) = indefinite_length
           /\ ~Reset) => Rejects]_vars
    /\ C19_StrayBreak

\* the eight bytes of a 64-bit value, the most significant first
Bytes64(v) ==
    [k \in 1..8 |-> IF k % 2 = 1 THEN v[(k + 1) \div 2] \div 256
                    ELSE v[k \div 2] % 256]

\* the argument of the head that is next after the tags, as eight bytes: the
\* additional info when it is below 24, else the bytes that follow the head
HeadArgument ==
    LET d == source_.data
        i == AfterTags.source_.pos + 1
        n == argument_length(HeadInfo)
    IN  IF n = 0 THEN PadLeft(<<HeadInfo>>, 8)
        ELSE PadLeft(SubSeq(d, i + 1, i + n), 8)

\* the turn of the loop reads, as an item, an integer of this major type
\* whose head has additional info 0 to 27 and all its bytes in the input
AtInteger(major_type) ==
    /\ AtHeadOf(major_type) /\ At(ItemModes)
    /\ HeadInfo <= 27
    /\ head_end(source_.data, AfterTags.source_.pos + 1) > 0

\* the number that eight bytes with the first four 0 and the fifth below 128
\* denote
Below2p31(bytes) ==
    ((bytes[5] * 256 + bytes[6]) * 256 + bytes[7]) * 256 + bytes[8]

\* C20: a turn of the loop that reads an unsigned integer (no reference to a
\* stringref table) delivers a uint64 whose value is the additional info, or
\* the big-endian value of the 1, 2, 4 or 8 bytes after the head; a turn that
\* reads a negative integer with an argument below 2^63 delivers the int64
\* -1 - argument: in two's complement the bitwise complement of the
\* argument, and for an argument n below 2^31 the number -1 - n.
C20_Integers ==
    [][/\ (AtInteger(unsigned_integer) /\ ~AtStringref /\ ~Reset) =>
              /\ out' = Append(out, Delivered)
              /\ Delivered.ev = "uint64"
              /\ Bytes64(Delivered.arg) = HeadArgument
              /\ ec' = NoError
       /\ (AtInteger(negative_integer) /\ HeadArgument[1] < 128 /\ ~Reset) =>
              /\ out' = Append(out, Delivered)
              /\ Delivered.ev = "int64"
              /\ Bytes64(Delivered.arg) = [k \in 1..8 |-> 255 - HeadArgument[k]]
              /\ (\A k \in 1..4 : HeadArgument[k] = 0) /\ HeadArgument[5] < 128 =>
                     int_of(Delivered.arg) = -1 - Below2p31(HeadArgument)
              /\ ec' = NoError]_vars

\* [256, -256] has been delivered
C20_Witness ==
    /\ FirstRun /\ source_.data = <<130, 25, 1, 0, 56, 255>>
    /\ Len(out) = 3
    /\ out[2] = Event("uint64", <<0, 0, 0, 256>>, "none")
    /\ out[3] = Event("int64", <<65535, 65535, 65535, 65280>>, "none")

\* C21: a turn of the loop that reads a negative integer whose 8-byte
\* argument has its top bit set reports number_too_large and delivers no
\* event.
C21_NumberTooLarge ==
    [][(/\ AtInteger(negative_integer)
        /\ HeadInfo = 27 /\ HeadArgument[1] >= 128
        /\ ~Reset) =>
          (ec' = "number_too_large" /\ out' = out)]_vars

\* the turn of the loop reads, as an item, a float of this additional info
\* with all its bytes in the input
AtFloat(infos) ==
    /\ AtHeadOf(simple) /\ At(ItemModes)
    /\ HeadInfo \in infos
    /\ head_end(source_.data, AfterTags.source_.pos + 1) > 0

\* the turn reads an integer that is no stringref reference
AtPlainInteger ==
    \/ AtInteger(unsigned_integer) /\ ~AtStringref
    \/ AtInteger(negative_integer)

\* the item tag pending when the head after the tags is read is 1
TimestampPending == AfterTags.other_tags_.item_tag /\ AfterTags.item_tag_ = 1

\* the turn delivers one number, tagged timestamp exactly under item tag 1
DeliversNumber ==
    /\ out' = Append(out, Delivered)
    /\ Delivered.ev \in {"uint64", "int64", "half", "double"}
    /\ Delivered.tag = IF TimestampPending THEN "timestamp" ELSE "none"

\* C22: a turn of the loop that reads a number (an unsigned or negative
\* integer, a half, single or double float) delivers it with the semantic
\* tag timestamp when the pending item tag is 1, and with none when another
\* item tag or no item tag is pending.
C22_Timestamp ==
    [][((AtPlainInteger \/ AtFloat({25, 26, 27})) /\ ~Reset) => DeliversNumber]_vars

\* the same for all numbers but the half floats
C22_ExceptHalf ==
    [][((AtPlainInteger \/ AtFloat({26, 27})) /\ ~Reset) => DeliversNumber]_vars

(***************************************************************************)
(* Decimal fractions and bigfloats.                                        *)
(***************************************************************************)
\* the turn of the loop reads, as an item, an array with this item tag pending
AtTaggedArray(tag) ==
    /\ AtHeadOf(array) /\ At(ItemModes)
    /\ AfterTags.other_tags_.item_tag /\ AfterTags.item_tag_ = tag

\* the index of the head of the array, of its first element, and of its
\* second (0 or less when the input ends first)
PairHead == AfterTags.source_.pos + 1
ExponentHead == PairHead + 1
MantissaHead ==
    IF ExponentHead > Len(source_.data) THEN Truncated
    ELSE head_end(source_.data, ExponentHead)

MajorTypeAt(i) == get_major_type(source_.data[i])

\* the array has not exactly two elements
WrongCount == HeadInfo # 2

\* the first element is present and no integer
WrongExponent ==
    /\ HeadInfo = 2
    /\ ExponentHead <= Len(source_.data)
    /\ MajorTypeAt(ExponentHead) \notin {unsigned_integer, negative_integer}

\* the second element is present and of a major type that no mantissa has
WrongMantissaType ==
    /\ HeadInfo = 2
    /\ ExponentHead <= Len(source_.data)
    /\ MajorTypeAt(ExponentHead) \in {unsigned_integer, negative_integer}
    /\ MantissaHead > 0 /\ MantissaHead <= Len(source_.data)
    /\ MajorTypeAt(MantissaHead) \notin {unsigned_integer, negative_integer, semantic_tag}

\* the second element is a tagged item that is no tag-2 or tag-3 byte string
WrongTaggedMantissa ==
    /\ HeadInfo = 2
    /\ ExponentHead <= Len(source_.data)
    /\ MajorTypeAt(ExponentHead) \in {unsigned_integer, negative_integer}
    /\ MantissaHead > 0 /\ MantissaHead < Len(source_.data)
    /\ MajorTypeAt(MantissaHead) = semantic_tag
    /\ \/ source_.data[MantissaHead] \notin {194, 195}
       \/ MajorTypeAt(MantissaHead + 1) # byte_string

\* the error code for a malformed array under this tag
InvalidPair(tag) == IF tag = 4 THEN "invalid_bigdec" ELSE "invalid_bigfloat"

\* C23: a turn of the loop that reads an array tagged 4 (or 5) that has not
\* exactly two elements, or whose exponent is no integer, or whose mantissa
\* is neither an integer nor a byte string tagged 2 or 3, reports
\* invalid_bigdec (or invalid_bigfloat): no exception, no string event.
C23_InvalidPair ==
    [][\A tag \in {4, 5} :
          (/\ AtTaggedArray(tag)
           /\ WrongCount \/ WrongExponent \/ WrongMantissaType \/ WrongTaggedMantissa
           /\ ~Reset) =>
             (ec' = InvalidPair(tag) /\ out' = out)]_vars

\* what does hold: an exponent or a mantissa of a major type that is neither
\* an integer nor a tag is reported as invalid_bigdec (or invalid_bigfloat)
C23_WrongType ==
    [][\A tag \in {4, 5} :
          (/\ AtTaggedArray(tag)
           /\ WrongExponent \/ WrongMantissaType
           /\ ~Reset) =>
             (ec' = InvalidPair(tag) /\ out' = out)]_vars

\* the argument of the head at index i of the input, as a 64-bit value
ArgumentAt(i) ==
    LET info == get_additional_information_value(source_.data[i])
        n == argument_length(info)
    IN  IF n = 0 THEN U64(info)
        ELSE big_to_native(SubSeq(source_.data, i + 1, i + n))

\* the integer whose head is at index i, as an int64_t
IntegerAt(i) ==
    IF MajorTypeAt(i) = unsigned_integer THEN ArgumentAt(i) ELSE Not64(ArgumentAt(i))

\* an integer with info 0 to 27 begins at index i and is all in the input
IntegerHeadAt(i) ==
    /\ i > 0 /\ i <= Len(source_.data)
    /\ MajorTypeAt(i) \in {unsigned_integer, negative_integer}
    /\ get_additional_information_value(source_.data[i]) <= 27
    /\ head_end(source_.data, i) > 0

\* a byte string tagged 2 or 3 begins at index i and is all in the input
BignumAt(i) ==
    /\ i > 0 /\ i < Len(source_.data)
    /\ source_.data[i] \in {194, 195}
    /\ MajorTypeAt(i + 1) = byte_string
    /\ get_additional_information_value(source_.data[i + 1]) <= 27
    /\ item_end(source_.data, i + 1) > 0

\* the turn of the loop reads a well-formed bigfloat: 5([exponent, mantissa])
AtBigfloat ==
    /\ AtTaggedArray(5) /\ HeadInfo = 2
    /\ IntegerHeadAt(ExponentHead)
    /\ IntegerHeadAt(MantissaHead) \/ BignumAt(MantissaHead)

\* the mantissa of the bigfloat is negative
NegativeMantissa ==
    \/ MajorTypeAt(MantissaHead) = negative_integer
    \/ source_.data[MantissaHead] = 195

IsHexDigit(ch) == ch \in (48..57) \cup (65..70) \cup (97..102)

\* t is 0x, hexadecimal digits, p and the exponent e in decimal
IsHexFloat(t, e) ==
    \E k \in 3..Len(t) :
        /\ SubSeq(t, 1, 2) = <<48, 120>>
        /\ k > 3
        /\ \A m \in 3..(k - 1) : IsHexDigit(t[m])
        /\ t[k] = 112
        /\ SubSeq(t, k + 1, Len(t)) = write_integer(e)

\* C24: a turn of the loop that reads a bigfloat delivers one string tagged
\* bigfloat, of the form [-]0x<hex-mantissa>p<dec-exp>, the '-' being there
\* exactly when the mantissa is a negative integer or a tag-3 bignum, and
\* <dec-exp> being the exponent in decimal.
C24_Bigfloat ==
    [][(AtBigfloat /\ ~Reset) =>
          /\ out' = Append(out, Delivered)
          /\ Delivered.ev = "string" /\ Delivered.tag = "bigfloat"
          /\ Delivered.arg # <<>>
          /\ (Delivered.arg[1] = 45) <=> NegativeMantissa
          /\ IsHexFloat(IF Delivered.arg[1] = 45 THEN Tail(Delivered.arg)
                        ELSE Delivered.arg,
                        IntegerAt(ExponentHead))]_vars

\* what does hold: with an integer for a mantissa and an exponent from -9 to
\* 9 the string has the form and the sign that the claim gives
C24_SmallExponent ==
    [][(/\ AtBigfloat /\ IntegerHeadAt(MantissaHead)
        /\ IntegerAt(ExponentHead) \in
               {U64(n) : n \in 0..9} \cup {Not64(U64(n)) : n \in 0..8}
        /\ ~Reset) =>
          /\ out' = Append(out, Delivered)
          /\ Delivered.ev = "string" /\ Delivered.tag = "bigfloat"
          /\ (Delivered.arg[1] = 45) <=> NegativeMantissa
          /\ IsHexFloat(IF Delivered.arg[1] = 45 THEN Tail(Delivered.arg)
                        ELSE Delivered.arg,
                        IntegerAt(ExponentHead))]_vars

(***************************************************************************)
(* Typed arrays and tags.                                                  *)
(***************************************************************************)
\* the bytes per element that the tag of a typed array encodes: 1 << (f + ll)
BytesPerElement(tag) == 2 ^ (((tag \div 16) % 2) + (tag % 4))

\* the event is a typed-array event
IsTypedArray(e) == SubSeq(e.ev, 1, 11) = "typed_array"

\* the turn of the loop reads, as an item, a definite-length byte string that
\* is all in the input, with the item tag pending
AtTaggedByteString(tags) ==
    /\ AtHeadOf(byte_string) /\ At(ItemModes)
    /\ HeadInfo <= 27
    /\ item_end(source_.data, AfterTags.source_.pos + 1) > 0
    /\ AfterTags.other_tags_.item_tag /\ AfterTags.item_tag_ \in tags

\* the turn delivers the bytes as a typed array of whole elements
DeliversTypedArray ==
    /\ out' = Append(out, Delivered)
    /\ IsTypedArray(Delivered)
    /\ Len(Delivered.arg) = Len(HeadPayload)
    /\ Len(Delivered.arg) \div BytesPerElement(AfterTags.item_tag_)
           = Len(HeadPayload) \div BytesPerElement(AfterTags.item_tag_)

\* C25: a turn of the loop that reads a byte string under a typed-array tag
\* delivers a typed-array event only when the length of the byte string is a
\* multiple of the bytes per element, 1 << (f + ll), of the tag; the event
\* then has byte_len / bytes-per-element elements, which hold every byte of
\* the string.
C25_TypedArray ==
    [][(AtTaggedByteString(TypedArrayTags) /\ ~Reset) =>
          IF Len(HeadPayload) % BytesPerElement(AfterTags.item_tag_) = 0
          THEN DeliversTypedArray
          ELSE out' = out \/ ~IsTypedArray(Delivered)]_vars

\* what does hold: a byte string of whole elements is delivered whole
C25_WholeElements ==
    [][(/\ AtTaggedByteString(TypedArrayTags)
        /\ Len(HeadPayload) % BytesPerElement(AfterTags.item_tag_) = 0
        /\ ~Reset) => DeliversTypedArray]_vars

\* the item that the turn of the loop reads is the one-byte-numbered tag t on
\* a definite-length byte string that is all in the input
BearsTag(t) ==
    /\ At(ItemModes) /\ AtItemStart
    /\ source_.pos + 3 <= Len(source_.data)
    /\ source_.data[source_.pos + 1] = 216
    /\ source_.data[source_.pos + 2] = t
    /\ MajorTypeAt(source_.pos + 3) = byte_string
    /\ get_additional_information_value(source_.data[source_.pos + 3]) <= 27
    /\ item_end(source_.data, source_.pos + 3) > 0

\* the turn records t as the item tag and delivers a typed array
TypedArrayFor(t) ==
    /\ item_tag_' = t
    /\ out' = Append(out, Delivered)
    /\ IsTypedArray(Delivered)
    /\ Delivered.tag = IF t = 68 THEN "clamped" ELSE "none"

\* C26: a turn of the loop that reads a byte string bearing a tag from 0x40
\* to 0x56 records that tag as the item tag and delivers a typed-array
\* event, with the semantic tag clamped for 0x44 and none for the others.
C26_TypedArrayTags ==
    [][\A t \in 64..86 : (BearsTag(t) /\ ~Reset) => TypedArrayFor(t)]_vars

\* the same for the tags that read_tags lists
C26_ListedTags ==
    [][\A t \in TypedArrayTags : (BearsTag(t) /\ ~Reset) => TypedArrayFor(t)]_vars

\* the number of the tag whose head is at index i; -1 for a number that is
\* 2^31 or more, which no tag that the parser knows has
TagNumberAt(i) == IF IsSmall(ArgumentAt(i)) THEN ToNat(ArgumentAt(i)) ELSE -1

\* The tags that stand in the input from index i on: their numbers in order,
\* the index of the head that follows them, and whether every tag head has
\* additional info 0 to 27 and all its bytes, and a head follows the tags.
RECURSIVE TagRun(_)
TagRun(i) ==
    IF i > Len(source_.data) THEN [tags |-> <<>>, next |-> i, whole |-> FALSE]
    ELSE IF MajorTypeAt(i) # semantic_tag THEN [tags |-> <<>>, next |-> i, whole |-> TRUE]
    ELSE IF get_additional_information_value(source_.data[i]) > 27
            \/ head_end(source_.data, i) <= 0
    THEN [tags |-> <<>>, next |-> i, whole |-> FALSE]
    ELSE LET rest == TagRun(head_end(source_.data, i))
         IN  [rest EXCEPT !.tags = <<TagNumberAt(i)>> \o @]

\* the tags before the item that the turn of the loop reads
TagsHere == TagRun(source_.pos + 1)

\* the last tag number of the sequence that is an item tag, 0 - 1 for none
RECURSIVE LastItemTag(_)
LastItemTag(tags) ==
    IF tags = <<>> THEN -1
    ELSE IF tags[Len(tags)] \in ItemTags THEN tags[Len(tags)]
    ELSE LastItemTag(SubSeq(tags, 1, Len(tags) - 1))

Occurs(n, tags) == \E k \in DOMAIN tags : tags[k] = n

\* the semantic tag of a text string under this item tag
TextTag(t) ==
    CASE t = 0 -> "datetime" [] t = 32 -> "uri" [] t = 33 -> "base64url"
      [] t = 34 -> "base64" [] OTHER -> "none"

\* C27: where tags precede an item, reading them sets the stringref flag
\* when 25 is among them and the namespace flag when 256 is, makes the last
\* item tag among them the pending item tag, and changes nothing else: a tag
\* that is none of these is passed over with no error, and the flags and the
\* item tag that were pending before stay as they were.  A text string read
\* as an item is delivered with the semantic tag of that last item tag.
C27_Tags ==
    /\ [](/\ At(ItemModes \cup KeyModes) /\ AtItemStart
          /\ TagsHere.tags # <<>> /\ TagsHere.whole
          => /\ AfterTags.ec = NoError
             /\ AfterTags.out = out
             /\ AfterTags.source_.pos = TagsHere.next - 1
             /\ AfterTags.other_tags_.stringref_tag =
                    (other_tags_.stringref_tag \/ Occurs(25, TagsHere.tags))
             /\ AfterTags.other_tags_.stringref_namespace_tag =
                    (other_tags_.stringref_namespace_tag \/ Occurs(256, TagsHere.tags))
             /\ AfterTags.other_tags_.item_tag =
                    (other_tags_.item_tag \/ LastItemTag(TagsHere.tags) >= 0)
             /\ AfterTags.item_tag_ =
                    IF LastItemTag(TagsHere.tags) >= 0
                    THEN LastItemTag(TagsHere.tags) ELSE item_tag_)
    /\ [][(/\ At(ItemModes) /\ AtItemStart
           /\ TagsHere.tags # <<>> /\ TagsHere.whole
           /\ LastItemTag(TagsHere.tags) >= 0
           /\ AtHeadOf(text_string)
           /\ out' # out /\ ~Reset) =>
              /\ out' = Append(out, Delivered)
              /\ Delivered.ev = "string"
              /\ Delivered.tag = TextTag(LastItemTag(TagsHere.tags))]_vars

\* "a" has been delivered as a uri: the tags before it are 0 and then 32
C27_Witness ==
    /\ FirstRun /\ source_.data = <<192, 216, 32, 97, 97>>
    /\ out # <<>> /\ out[1] = Event("string", <<97>>, "uri")

(***************************************************************************)
(* Chunked strings, pending stringref flags, multi-dimensional arrays.     *)
(***************************************************************************)
\* Whether, from index i on, before the break that ends the chunks of a
\* string of this major type, there is a chunk that is no definite-length
\* string of that type: a string of the other type, an indefinite-length
\* string, or an item of another major type.
RECURSIVE BadChunkFrom(_, _)
BadChunkFrom(i, major_type) ==
    IF i > Len(source_.data) \/ source_.data[i] = 255 THEN FALSE
    ELSE IF MajorTypeAt(i) # major_type THEN TRUE
    ELSE IF get_additional_information_value(source_.data[i]) = indefinite_length THEN TRUE
    ELSE IF item_end(source_.data, i) <= 0 THEN FALSE
    ELSE BadChunkFrom(item_end(source_.data, i), major_type)

\* C28: a turn of the loop that reads an indefinite-length text or byte
\* string with a chunk that is no definite-length string of the same major
\* type ends with an error code and delivers no event.
C28_Chunks ==
    [][\A major_type \in {byte_string, text_string} :
          (/\ AtHeadOf(major_type) /\ HeadInfo = indefinite_length
           /\ BadChunkFrom(AfterTags.source_.pos + 2, major_type)
           /\ ~Reset) =>
             (IsErrorCode(ec') /\ out' = out)]_vars

\* C29: a turn of the loop that reads, with the stringref flag of tag 25
\* pending, an item that is no unsigned integer (a negative integer, a byte
\* or text string, an array, a map, a float or a simple value) reports
\* unknown_type.
C29_StringrefOnOther ==
    [][\A major_type \in {negative_integer, byte_string, text_string, array, map, simple} :
          (/\ AtHeadOf(major_type) /\ At(ItemModes)
           /\ AfterTags.other_tags_.stringref_tag
           /\ ~Reset) =>
             ec' = "unknown_type"]_vars

\* The dimensions that stand in the input from index i on, n of them, or up
\* to the break when n is 0 - 1: the values, four limbs each, and whether
\* every one is an unsigned integer with all its bytes in the input.
RECURSIVE DimsFrom(_, _)
DimsFrom(i, n) ==
    IF n = 0 THEN [dims |-> <<>>, whole |-> TRUE]
    ELSE IF i > Len(source_.data) THEN [dims |-> <<>>, whole |-> FALSE]
    ELSE IF n < 0 /\ source_.data[i] = 255 THEN [dims |-> <<>>, whole |-> TRUE]
    ELSE IF ~(IntegerHeadAt(i) /\ MajorTypeAt(i) = unsigned_integer)
    THEN [dims |-> <<>>, whole |-> FALSE]
    ELSE LET rest == DimsFrom(head_end(source_.data, i), IF n < 0 THEN n ELSE n - 1)
         IN  [rest EXCEPT !.dims = ArgumentAt(i) \o @]

\* the shape of the multi-dimensional array that the turn of the loop reads:
\* the first element of the array after the tags, an array of dimensions
ShapeHere ==
    LET i == PairHead + 1
        info == get_additional_information_value(source_.data[i])
    IN  IF i > Len(source_.data) \/ MajorTypeAt(i) # array
           \/ (info > 23 /\ info # indefinite_length)
        THEN [dims |-> <<>>, whole |-> FALSE]
        ELSE DimsFrom(i + 1, IF info = indefinite_length THEN -1 ELSE info)

\* the semantic tag of begin_multi_dim under this item tag
StorageOrder(tag) ==
    IF tag = 40 THEN "multi_dim_row_major" ELSE "multi_dim_column_major"

\* the index of the begin_multi_dim that the end_multi_dim at index m of
\* the log closes
BeginOf(m) ==
    CHOOSE k \in 1..m :
        /\ out[k].ev = "begin_multi_dim"
        /\ open_containers(SubSeq(out, 1, k - 1)) = open_containers(SubSeq(out, 1, m))
        /\ \A j \in (k + 1)..(m - 1) :
               Len(open_containers(SubSeq(out, 1, j))) >= Len(open_containers(SubSeq(out, 1, k)))

\* between a begin_multi_dim and its end_multi_dim the log holds the events
\* of exactly one complete item
OnePayload ==
    \A m \in DOMAIN out :
        out[m].ev = "end_multi_dim" =>
            LET payload == SubSeq(out, BeginOf(m) + 1, m - 1)
            IN  /\ open_containers(payload) = <<>>
                /\ TopLevelItems(payload) = 1

\* C30: a turn of the loop that reads an array of two elements (of definite
\* or indefinite length) tagged 40 or 1040 whose first element is an array of dimensions delivers
\* begin_multi_dim with exactly these dimensions in order and with the
\* row-major or column-major tag; and in every log the events between a
\* begin_multi_dim and its end_multi_dim are those of exactly one complete
\* item, so that end_multi_dim never comes before the payload is complete.
C30_MultiDim ==
    /\ [][\A tag \in {40, 1040} :
              (/\ AtTaggedArray(tag) /\ HeadInfo \in {2, indefinite_length}
               /\ ShapeHere.whole
               /\ ~Reset) =>
                 /\ out' = Append(out, Delivered)
                 /\ Delivered = Event("begin_multi_dim", ShapeHere.dims, StorageOrder(tag))]_vars
    /\ []OnePayload

\* the same where the array and its shape array are of definite length
C30_DefiniteShape ==
    /\ [][\A tag \in {40, 1040} :
              (/\ AtTaggedArray(tag) /\ HeadInfo = 2
               /\ ShapeHere.whole
               /\ get_additional_information_value(source_.data[PairHead + 1]) <= 23
               /\ ~Reset) =>
                 /\ out' = Append(out, Delivered)
                 /\ Delivered = Event("begin_multi_dim", ShapeHere.dims, StorageOrder(tag))]_vars
    /\ []OnePayload

(***************************************************************************)
(* Termination of parse().                                                 *)
(***************************************************************************)
\* parse() is inside its loop: the guard of `while (!done_ && more_)` holds
\* and no error code has been set
InCall ==
    /\ more_ /\ ~done_ /\ ec = NoError
    /\ nesting_depth_ <= MaxNestingDepth + DepthSlack

\* parse() has returned: done(), an error code, or a halting visitor
Returned == done_ \/ ec # NoError \/ ~more_

\* the caller's calls; a call of parse() that has been entered runs its loop
\* until the guard fails.  This is weak fairness of the turns of a running
\* call, WF_vars(InCall /\ ParseStep), with ENABLED written as the loop guard
\* InCall that enables them.
SpecLive == Spec /\ ([]<>~InCall \/ []<><<ParseStep>>_vars)

\* the bytes left in the source
Remaining == Len(source_.data) - source_.pos

\* C31: every call of parse() returns: each turn of its loop consumes input,
\* pops a frame or ends the call, so a running call reaches done(), an error
\* code or a halt
C31_Terminates ==
    /\ [][(ParseStep /\ ~Reset) =>
             \/ Remaining' < Remaining
             \/ Remaining' = Remaining /\ Len(state_stack_') < Len(state_stack_)
             \/ Returned']_vars
    /\ (InCall ~> Returned)

C31_Witness ==
    /\ done_ /\ ec = NoError /\ ~was_reset
    /\ source_.data = <<216, 40, 130, 130, 2, 2, 132, 1, 2, 3, 4>>
    /\ source_.pos = 11
    /\ Len(out) > 0 /\ out[Len(out)].ev = "flush"

(***************************************************************************)
(* read_shape on a head of indefinite length.                              *)
(***************************************************************************)
\* the index of the first break at or after index i of the source (past the
\* end when there is none)
RECURSIVE BreakFrom(_)
BreakFrom(i) ==
    IF i > Len(source_.data) \/ source_.data[i] = 255 THEN i
    ELSE BreakFrom(head_end(source_.data, i))

\* the dimensions that follow the head of indefinite length, up to a break
DimsToBreak == DimsFrom(PairHead + 1, -1)

\* C32: a turn of the loop at an array head of indefinite length tagged 40
\* or 1040, followed by dimensions and a break, reads the dimensions up to the
\* break, consumes the break and nothing after it, and delivers
\* begin_multi_dim with these dimensions and no error
C32_ShapeStopsAtBreak ==
    [][\A tag \in {40, 1040} :
           (/\ AtTaggedArray(tag) /\ HeadInfo = indefinite_length
            /\ DimsToBreak.whole /\ BreakFrom(PairHead + 1) <= Len(source_.data)
            /\ ~Reset) =>
              /\ ec' = NoError
              /\ source_'.pos = BreakFrom(PairHead + 1)
              /\ out' = Append(out, Delivered)
              /\ Delivered = Event("begin_multi_dim", DimsToBreak.dims, StorageOrder(tag))]_vars

\* what the loop does: it goes on after the break up to the end of the input
C32_ShapeRunsToEnd ==
    [][\A tag \in {40, 1040} :
           (/\ AtTaggedArray(tag) /\ HeadInfo = indefinite_length
            /\ ~Reset) =>
              /\ ec' # NoError
              /\ out' = out]_vars

(***************************************************************************)
(* After done().                                                           *)
(***************************************************************************)
\* C33: once done() is true, no call but reset() changes done(), the log of
\* callbacks or the source: parse() is not enabled, restart() sets more_
\* only; and when a parser that was not reset is done, it has consumed no
\* byte beyond the end of the first data item of its input
C33_AfterDone ==
    /\ [][(done_ /\ ~Reset) =>
             /\ done_'
             /\ out' = out
             /\ source_' = source_
             /\ ~(ENABLED ParseStep)']_vars
    /\ []((done_ /\ ~was_reset /\ item_end(source_.data, 1) > 0) =>
             source_.pos < item_end(source_.data, 1))

\* done, restarted, with bytes left after the first item
C33_Witness ==
    /\ done_ /\ more_ /\ ~was_reset
    /\ source_.data = <<1, 25, 57>> /\ source_.pos = 1

(***************************************************************************)
(* The shape of the frame stack.                                           *)
(***************************************************************************)
ContainerModes ==
    {"array", "indefinite_array", "map_key", "map_value", "indefinite_map_key",
     "indefinite_map_value", "multi_dim"}

\* the bottom frame is the root frame, every frame above it is a container's
ShapedStack ==
    /\ Len(state_stack_) >= 1
    /\ state_stack_[1].mode \in {"root", "before_done"}
    /\ \A i \in 2..Len(state_stack_) : state_stack_[i].mode \in ContainerModes

\* restart() called after parse() has returned with an error code that
\* set more_ to false
RestartAfterError ==
    /\ ~more_ /\ ec # NoError
    /\ more_' = TRUE
    /\ halted' = FALSE
    /\ UNCHANGED <<source_, done_, item_tag_, other_tags_, state_stack_,
                   stringref_map_stack_, nesting_depth_, ec, out, interrupted,
                   resumed, was_reset>>
    /\ UNCHANGED <<encoder_vars, visitor_vars>>

\* the calls of a caller that also restarts the parser after an error
NextAnyCalls == Next \/ RestartAfterError

SpecAnyCalls == Init /\ [][NextAnyCalls]_vars

\* C34: while done() is false the frame stack is not empty, its bottom frame
\* is the only one in mode root or before_done and every other frame is in a
\* container mode; so a turn of the loop in mode before_done finds one frame
\* and ends the parse with the flush, whatever calls came before
C34_StackShape ==
    /\ [](~done_ => ShapedStack)
    /\ [][(ParseStep /\ ~Reset /\ At({"before_done"})) =>
             /\ Len(state_stack_) = 1
             /\ done_' /\ ec' = NoError
             /\ out' = Append(out, Event("flush", <<>>, "none"))]_vars

\* the turn in mode before_done, taken by a parse() that is entered again
\* after an error code, with the frames of open containers popped before
C34_Witness ==
    /\ done_ /\ resumed /\ ec = NoError
    /\ \E i \in DOMAIN out : out[i].ev = "end_array"

(***************************************************************************)
(* The nesting depth.                                                      *)
(***************************************************************************)
\* the array and map frames on the frame stack
array_and_map_frames ==
    {i \in DOMAIN state_stack_ :
        state_stack_[i].mode \in ContainerModes \ {"multi_dim"}}

\* C35: in every reachable state nesting_depth_ is the number of array and
\* map frames on the frame stack: 0 when done() is true and right after
\* reset()
C35_NestingDepth == nesting_depth_ = Cardinality(array_and_map_frames)

\* what does hold: the same on the first run of the parser, while no error
\* code has been set
C35_FirstRun ==
    (FirstRun /\ ec = NoError) => C35_NestingDepth

(***************************************************************************)
(* The stringref tables under resolution.                                  *)
(***************************************************************************)
\* every table that is on the stack before and after the step has kept its
\* entries at their indices, and only the innermost one may have grown
TablesGrowInnermost ==
    LET old == stringref_map_stack_
        new == stringref_map_stack_'
    IN  \A i \in 1..Min(Len(old), Len(new)) :
            /\ IsPrefix(old[i], new[i])
            /\ i < Len(old) => new[i] = old[i]

\* C36: a turn of the loop that resolves a reference (an unsigned integer
\* under tag 25 with a table active, as a value or as a key) leaves the
\* stack of tables as it is; and in every step a table keeps its entries at
\* their indices and grows, if at all, by entries appended while it is the
\* innermost one
C36_TablesStable ==
    /\ [][(AtStringref /\ ~Reset) =>
             stringref_map_stack_' = stringref_map_stack_]_vars
    /\ [][TablesGrowInnermost]_vars

\* 256({"abc": h'010203', 25(0): 1, 25(1): 25(0)}): both references in key
\* position and the one in value position resolved, two entries in the table
C36_Witness ==
    /\ source_.data = <<217, 1, 0, 163, 99, 97, 98, 99, 67, 1, 2, 3, 216, 25, 0, 1,
                        216, 25, 1, 216, 25, 0>>
    /\ source_.pos = 22 /\ ec = NoError /\ ~was_reset
    /\ stringref_map_stack_ # <<>> /\ Len(InnermostTable) = 2
    /\ Len(out) > 0 /\ out[Len(out)].ev = "string"

(***************************************************************************)
(* The encoder driven by a caller: any sequence of visit_ calls.            *)
(***************************************************************************)
EncoderLengths == {0, 1, 2}

\* "a", and a string that is not valid UTF-8
EncoderStrings == {<<97>>, <<195, 40>>}

EncoderNames == {<<97>>}

InitEncoder == Constructed({<<>>}) /\ NoEncoding /\ NoDeserializing

\* the calls explored: nesting_depth_ is an int that failing calls move
\* without limit
EncoderInBounds ==
    /\ Len(encoder_calls) < MaxCalls
    /\ encoder.nesting_depth_ >= -DepthSlack
    /\ encoder.nesting_depth_ <= MaxEncoderDepth + DepthSlack

\* a visit_ function called with a cleared error_code returns the encoder e
Called(e, ev) ==
    /\ encoder' = e
    /\ encoder_calls' = IF e.ec = NoError /\ e.ret THEN Append(encoder_calls, ev)
                        ELSE encoder_calls
    /\ UNCHANGED <<parser_vars, visitor_vars>>

Entered == [encoder EXCEPT !.ec = NoError]

VisitBeginObjectNoLength ==
    /\ EncoderInBounds
    /\ Called(visit_begin_object_no_length(Entered), Event("begin_object", <<>>, "none"))

VisitBeginObject ==
    /\ EncoderInBounds
    /\ \E length \in EncoderLengths :
           Called(visit_begin_object(Entered, length), Event("begin_object", length, "none"))

VisitEndObject ==
    /\ EncoderInBounds
    /\ Called(visit_end_object(Entered), Event("end_object", <<>>, "none"))

VisitBeginArrayNoLength ==
    /\ EncoderInBounds
    /\ Called(visit_begin_array_no_length(Entered), Event("begin_array", <<>>, "none"))

VisitBeginArray ==
    /\ EncoderInBounds
    /\ \E length \in EncoderLengths :
           Called(visit_begin_array(Entered, length), Event("begin_array", length, "none"))

VisitEndArray ==
    /\ EncoderInBounds
    /\ Called(visit_end_array(Entered), Event("end_array", <<>>, "none"))

VisitKey ==
    /\ EncoderInBounds
    /\ \E name \in EncoderNames :
           Called(visit_key(Entered, name), Event("key", name, "none"))

VisitNull ==
    /\ EncoderInBounds
    /\ Called(visit_null(Entered), Event("null", <<>>, "none"))

VisitString ==
    /\ EncoderInBounds
    /\ \E sv \in EncoderStrings :
           Called(visit_string(Entered, sv), Event("string", sv, "none"))

VisitBool ==
    /\ EncoderInBounds
    /\ \E val \in {TRUE} :
           Called(visit_bool(Entered, val), Event("bool", val, "none"))

NextEncoder ==
    \/ VisitBeginObjectNoLength \/ VisitBeginObject \/ VisitEndObject
    \/ VisitBeginArrayNoLength \/ VisitBeginArray \/ VisitEndArray
    \/ VisitKey \/ VisitNull \/ VisitString \/ VisitBool

SpecEncoder == InitEncoder /\ [][NextEncoder]_vars

\* The containers that a log of calls leaves open, outermost first: the
\* length declared at the begin and the number of values written since: a
\* scalar is one value, a container that has been ended is one value of its
\* parent, a key is none.
RECURSIVE written(_)
written(log) ==
    IF log = <<>> THEN <<>>
    ELSE LET st == written(SubSeq(log, 1, Len(log) - 1))
             e == log[Len(log)]
             one_more(open) ==
                 IF open = <<>> THEN open
                 ELSE [open EXCEPT ![Len(open)].count = @ + 1]
         IN  CASE e.ev \in {"begin_array", "begin_object"} ->
                    Append(st, [length |-> e.arg, count |-> 0])
               [] e.ev \in {"end_array", "end_object"} ->
                    one_more(SubSeq(st, 1, Len(st) - 1))
               [] e.ev = "key" -> st
               [] OTHER -> one_more(st)

\* stack_ holds, for every container left open, the length declared and the
\* number of values written since its begin
CountsValues ==
    LET open == written(encoder_calls)
    IN  /\ Len(encoder.stack_) = Len(open)
        /\ \A i \in DOMAIN open :
               /\ encoder.stack_[i].length_ = open[i].length
               /\ encoder.stack_[i].count_ = open[i].count

\* the call has changed nothing but the error code, the value returned and
\* nesting_depth_
Rejected(errc) ==
    /\ encoder'.ec = errc /\ ~encoder'.ret
    /\ encoder'.stack_ = encoder.stack_
    /\ encoder'.sink_ = encoder.sink_
    /\ encoder_calls' = encoder_calls

\* C37: the encoder counts, for every open container, the values written
\* since its begin (a nested container that has been ended is one value, a
\* key none); visit_end_array and visit_end_object called with a container
\* open return false with too_few_items when fewer values than the declared
\* length have been written and with too_many_items when more, the container
\* left on the stack, and on equality pop it and count it as one value of
\* its parent; a begin without a length returns false with
\* array_length_required or object_length_required and writes nothing.
C37_ItemCounting ==
    /\ []CountsValues
    /\ [][((VisitEndArray \/ VisitEndObject) /\ encoder.stack_ # <<>>) =>
             LET open == written(encoder_calls)
                 top == open[Len(open)]
             IN  IF top.count < top.length THEN Rejected("too_few_items")
                 ELSE IF top.count > top.length THEN Rejected("too_many_items")
                 ELSE /\ encoder'.ec = NoError /\ encoder'.ret
                      /\ Len(encoder'.stack_) = Len(encoder.stack_) - 1
                      /\ Len(encoder.stack_) > 1 =>
                             encoder'.stack_[Len(encoder'.stack_)].count_
                                 = encoder.stack_[Len(encoder.stack_) - 1].count_ + 1]_vars
    /\ [][VisitBeginArrayNoLength =>
             Rejected("array_length_required") /\ encoder' = Refuse(Entered, "array_length_required")]_vars
    /\ [][VisitBeginObjectNoLength =>
             Rejected("object_length_required") /\ encoder' = Refuse(Entered, "object_length_required")]_vars

\* an array of two with an empty array in it, ended with one value short:
\* the inner array counted as one value, the outer one left on the stack
C37_Witness ==
    /\ encoder.ec = "too_few_items" /\ ~encoder.ret
    /\ encoder.stack_ = <<[type_ |-> "array", length_ |-> 2, count_ |-> 1]>>
    /\ Len(encoder_calls) = 3 /\ encoder_calls[3].ev = "end_array"

(***************************************************************************)
(* deserialize() of a typed array: the reader hands its events, the        *)
(* current one first, to a typed_array_visitor until a visit_ function     *)
(* returns false.                                                          *)
(***************************************************************************)
ReaderEvents ==
    { Event("begin_array", <<>>, "none"), Event("end_array", <<>>, "none"),
      Event("uint64", 300, "none"), Event("int64", -1, "none"),
      Event("half", 1, "none"), Event("double", 3, "none"),
      Event("typed_array", <<7, 8>>, "none"), Event("null", <<>>, "none") }

InitDeserialize ==
    /\ Constructed({<<>>}) /\ NoEncoding
    /\ array_visitor = typed_array_visitor
    /\ \E k \in 1..MaxEvents : \E events \in [1..k -> ReaderEvents] :
           reader = basic_staj_reader(events)

\* the event that the reader hands over next is of one of these types
ReaderAt(types) ==
    /\ reader.more_ /\ reader.pos <= Len(reader.events)
    /\ reader.events[reader.pos].ev \in types
    /\ reader.pos = 1 => reader.events[1].ev = "begin_array"

\* the visit_ function called with the next event returns the visitor t
Handed(t) ==
    /\ array_visitor' = t
    /\ reader' = [reader EXCEPT !.pos = @ + 1, !.more_ = t.ret]
    /\ UNCHANGED <<parser_vars, encoder_vars>>

\* if (reader.current().event_type() != staj_event_type::begin_array)
DeserializeNotArray ==
    /\ reader.more_ /\ reader.pos = 1
    /\ reader.events[1].ev # "begin_array"
    /\ array_visitor' = [array_visitor EXCEPT !.ec = "json_not_vector"]
    /\ reader' = [reader EXCEPT !.more_ = FALSE]
    /\ UNCHANGED <<parser_vars, encoder_vars>>

ReadBeginArray ==
    /\ ReaderAt({"begin_array"})
    /\ Handed(typed_array_visit_begin_array(array_visitor))

ReadEndArray ==
    /\ ReaderAt({"end_array"})
    /\ Handed(typed_array_visit_end_array(array_visitor))

ReadInteger ==
    /\ ReaderAt({"uint64", "int64", "half"})
    /\ Handed(typed_array_visit_integer(array_visitor, reader.events[reader.pos].arg))

ReadDouble ==
    /\ ReaderAt({"double"})
    /\ Handed(typed_array_visit_double(array_visitor, reader.events[reader.pos].arg))

ReadTypedArray ==
    /\ ReaderAt({"typed_array"})
    /\ Handed(typed_array_visit_typed_array(array_visitor, reader.events[reader.pos].arg))

ReadOther ==
    /\ ReaderAt({"null"})
    /\ Handed(typed_array_visit_default(array_visitor))

NextDeserialize ==
    \/ DeserializeNotArray
    \/ ReadBeginArray \/ ReadEndArray \/ ReadInteger \/ ReadDouble
    \/ ReadTypedArray \/ ReadOther

SpecDeserialize == InitDeserialize /\ [][NextDeserialize]_vars

\* the element that a scalar event stands for in the target
ElementOf(e) == IF e.ev = "double" THEN (e.arg \div 2) % 256 ELSE e.arg % 256

ScalarEvents == {"uint64", "int64", "half", "double"}

\* the reader has been halted by the visit_end_array of the outer array
HaltedAtEnd ==
    /\ ~reader.more_ /\ array_visitor.ec = NoError
    /\ reader.pos > 2 /\ reader.events[reader.pos - 1].ev = "end_array"

\* C38: the first begin_array sets level_ to 1 and returns true, a
\* begin_array at level 1 or above sets json_not_vector and returns false;
\* every scalar event appends one element to the target and returns true;
\* visit_end_array returns false; once a visit_ function has returned false
\* no further event is handed over; and when the reader has been halted by
\* the end_array of the outer array, the target holds the elements of the
\* scalar events between the begin_array and that end_array, in their order.
C38_FlatArray ==
    /\ [][ReadBeginArray =>
             IF array_visitor.level_ = 0
             THEN /\ array_visitor'.level_ = 1 /\ array_visitor'.ret
                  /\ array_visitor'.ec = NoError
                  /\ array_visitor'.v_ = array_visitor.v_
             ELSE /\ array_visitor'.ec = "json_not_vector" /\ ~array_visitor'.ret
                  /\ array_visitor'.v_ = array_visitor.v_]_vars
    /\ [][(ReadInteger \/ ReadDouble) =>
             /\ array_visitor'.v_ =
                    Append(array_visitor.v_, ElementOf(reader.events[reader.pos]))
             /\ array_visitor'.ret]_vars
    /\ [][ReadEndArray => ~array_visitor'.ret /\ ~reader'.more_]_vars
    /\ [][~reader.more_ => UNCHANGED visitor_vars]_vars
    /\ [](HaltedAtEnd =>
             /\ \A i \in 2..(reader.pos - 2) : reader.events[i].ev \in ScalarEvents
             /\ array_visitor.v_ =
                    [i \in 1..(reader.pos - 3) |-> ElementOf(reader.events[i + 1])])

\* [-1] read into a vector of uint8_t, and the event after the end_array
\* left unread
C38_Witness ==
    /\ HaltedAtEnd
    /\ reader.events = <<Event("begin_array", <<>>, "none"), Event("int64", -1, "none"),
                         Event("end_array", <<>>, "none"), Event("uint64", 300, "none")>>
    /\ reader.pos = 4
    /\ array_visitor.v_ = <<255>>

====
